---- MODULE Spec2Model ----
(***************************************************************************)
(* Line-oriented markdown editor (Royster0/markdown-editor).               *)
(*                                                                         *)
(* The document is the list of children of the editor element; every child *)
(* is a line <div> carrying data-raw (the raw markdown), data-line (its    *)
(* index), the class "editing" and its rendered content.  Edit handlers are *)
(* async functions: they run synchronously up to an await on a render call, *)
(* are suspended, and resume later.  One action of the model is one such   *)
(* synchronous run of a handler (from a DOM event or from the resolution   *)
(* of the awaited render), so that everything another handler can observe  *)
(* is a state of the model.                                                *)
(*                                                                         *)
(* Strings are sequences of one-character strings.  Indices are 0-based as *)
(* in the source; NULL stands for null / a detached node.                  *)
(***************************************************************************)
EXTENDS Integers, Sequences, FiniteSets, TLC

(***************************************************************************)
(* Bounds of the model.                                                    *)
(***************************************************************************)
MaxLines == 3
MaxChars == 4
MaxInFlight == 2
\* The document size up to which events overlap suspended handlers.
MaxAsyncLines == 2
MaxAsyncChars == 1
\* The longest text given to setEditorContent on its own.
MaxTextLen == 4
\* The longest document given to isLineInsideBlock on its own.
MaxDocLines == 4
MaxBatch == 2
MaxBatchLines == 2
MaxHeadingOps == 3
MaxTabs == 2
\* The document size up to which a tab's text is typed into.
MaxTabChars == 3

NULL == -1

NL == "\n"
\* BT stands for the backtick character (three of them make a code fence).
BT == "bt"
SP == " "
CR == "\r"
TAB == "\t"

\* Characters the user types with the keyboard.
TypedChars == {"a", BT}

Min(a, b) == IF a < b THEN a ELSE b

(***************************************************************************)
(* String helpers: String.prototype.substring / split / trimEnd / trim /   *)
(* Array.prototype.join as the handlers use them.                          *)
(***************************************************************************)
\* substring clamps its arguments to the length of the string.
Substring(s, from, to) == SubSeq(s, Min(from, Len(s)) + 1, Min(to, Len(s)))

SubstringFrom(s, from) == SubSeq(s, Min(from, Len(s)) + 1, Len(s))

IsSpace(c) == c \in {SP, CR, NL, TAB}

\* trimEnd left out
TrimEndKeepsBlanks(s) == s

RECURSIVE TrimEnd(_)
TrimEnd(s) ==
  IF s = <<>> THEN <<>>
  ELSE IF IsSpace(s[Len(s)]) THEN TrimEnd(SubSeq(s, 1, Len(s) - 1))
  ELSE s

RECURSIVE TrimStart(_)
TrimStart(s) ==
  IF s = <<>> THEN <<>>
  ELSE IF IsSpace(s[1]) THEN TrimStart(Tail(s))
  ELSE s

Trim(s) == TrimStart(TrimEnd(s))

\* text.split(/\r?\n/): pieces between line breaks; a CR right before the
\* LF belongs to the separator.
RECURSIVE SplitFrom(_, _)
SplitFrom(s, cur) ==
  IF s = <<>> THEN <<cur>>
  ELSE IF s[1] = NL THEN <<cur>> \o SplitFrom(Tail(s), <<>>)
  ELSE IF s[1] = CR /\ Len(s) >= 2 /\ s[2] = NL
       THEN <<cur>> \o SplitFrom(Tail(Tail(s)), <<>>)
  ELSE SplitFrom(Tail(s), Append(cur, s[1]))

SplitLines(s) == SplitFrom(s, <<>>)

RECURSIVE Join(_)
Join(ls) ==
  IF ls = <<>> THEN <<>>
  ELSE IF Len(ls) = 1 THEN ls[1]
  ELSE ls[1] \o <<NL>> \o Join(Tail(ls))

RECURSIVE SumLen(_)
SumLen(ls) == IF ls = <<>> THEN 0 ELSE Len(ls[1]) + SumLen(Tail(ls))

StartsWithFence(s) == Len(s) >= 3 /\ s[1] = BT /\ s[2] = BT /\ s[3] = BT

(***************************************************************************)
(* Block detection.                                                        *)
(***************************************************************************)
\* The pass without the early return for a delimiter at lineIndex.
RECURSIVE InsideBlockCountingFence(_, _, _, _, _)
InsideBlockCountingFence(i, lineIndex, allLines, inCode, inMath) ==
  IF i > lineIndex THEN inCode \/ inMath
  ELSE LET trimmed == Trim(allLines[i + 1]) IN
       IF StartsWithFence(trimmed)
       THEN InsideBlockCountingFence(i + 1, lineIndex, allLines, ~inCode, inMath)
       ELSE IF trimmed = <<"$", "$">>
       THEN InsideBlockCountingFence(i + 1, lineIndex, allLines, inCode, ~inMath)
       ELSE InsideBlockCountingFence(i + 1, lineIndex, allLines, inCode, inMath)

\* isLineInsideBlock of editor-utils: one pass over lines 0..lineIndex with
\* a toggle per block kind.
RECURSIVE InsideBlockFrom(_, _, _, _, _)
InsideBlockFrom(i, lineIndex, allLines, inCode, inMath) ==
  IF i > lineIndex THEN inCode \/ inMath
  ELSE LET trimmed == Trim(allLines[i + 1]) IN
       IF StartsWithFence(trimmed)
       THEN IF i = lineIndex THEN FALSE
            ELSE InsideBlockFrom(i + 1, lineIndex, allLines, ~inCode, inMath)
       ELSE IF trimmed = <<"$", "$">>
       THEN IF i = lineIndex THEN FALSE
            ELSE InsideBlockFrom(i + 1, lineIndex, allLines, inCode, ~inMath)
       ELSE InsideBlockFrom(i + 1, lineIndex, allLines, inCode, inMath)

isLineInsideBlock(lineIndex, allLines) ==
  InsideBlockFrom(0, lineIndex, allLines, FALSE, FALSE)

\* Block Context Detector of the renderer for fenced code: the number of
\* fence lines before lineIndex decides whether the block is open.
RECURSIVE FencesBefore(_, _)
FencesBefore(lineIndex, allLines) ==
  IF lineIndex <= 0 THEN 0
  ELSE FencesBefore(lineIndex - 1, allLines)
       + (IF StartsWithFence(Trim(allLines[lineIndex])) THEN 1 ELSE 0)

detectCode(lineIndex, allLines) ==
  LET wasOpen == FencesBefore(lineIndex, allLines) % 2 = 1
      fence == lineIndex < Len(allLines)
               /\ StartsWithFence(Trim(allLines[lineIndex + 1]))
  IN [inBlock |-> wasOpen /\ ~fence,
      isStart |-> fence /\ ~wasOpen,
      isEnd |-> fence /\ wasOpen]

\* Block Context Detector of the renderer for math blocks.
RECURSIVE MathFencesBefore(_, _)
MathFencesBefore(lineIndex, allLines) ==
  IF lineIndex <= 0 THEN 0
  ELSE MathFencesBefore(lineIndex - 1, allLines)
       + (IF Trim(allLines[lineIndex]) = <<"$", "$">> THEN 1 ELSE 0)

detectMath(lineIndex, allLines) ==
  LET wasOpen == MathFencesBefore(lineIndex, allLines) % 2 = 1
      fence == lineIndex < Len(allLines)
               /\ Trim(allLines[lineIndex + 1]) = <<"$", "$">>
  IN [inBlock |-> wasOpen /\ ~fence,
      isStart |-> fence /\ ~wasOpen,
      isEnd |-> fence /\ wasOpen]

(***************************************************************************)
(* The state of the editor.                                                *)
(***************************************************************************)
VARIABLES
  lines,        \* editor.childNodes: the line <div>s in document order
  caret,        \* window.getSelection(): a collapsed range
  focused,      \* the editor element has the focus
  currentLine,  \* state.currentLine
  content,      \* state.content
  inflight,     \* the suspended handlers, each waiting for a render call
  last,         \* the handler that completed in the last step (history)
  serial,       \* what the pending key events give when handled in turn
  arg,          \* the argument of the function under examination
  ret,          \* what that function returned
  backend,      \* "up", or "down": the backend's render calls fail
  tabs,         \* tabs.ts: the tab records
  activeTabIndex, \* tabs.ts: the index of the active tab, -1 before initTabs
  isDirty,      \* state.isDirty
  currentFile,  \* state.currentFile
  storage       \* the files writeTextFile has written, by path

\* The tab records and what is read and written with them.
tabvars == <<tabs, activeTabIndex, isDirty, currentFile, storage>>

vars ==
  <<lines, caret, focused, currentLine, content, inflight, last, serial, arg, ret,
    backend, tabvars>>

(***************************************************************************)
(* Rendering.  A render result is what the handlers can see of the markup: *)
(* text  - the textContent the markup gives the line,                      *)
(* tag   - the block class the markup carries ("none" when it has none),   *)
(* first - the kind of the first child node: "text", "elem" or "none".     *)
(***************************************************************************)
\* Inline Renderer with hidden markers, restricted to code spans: the
\* leftmost backtick that has a later backtick with at least one character
\* in between opens a span that the nearest such backtick closes; the
\* markers are consumed.  Returns the remaining display text.
RECURSIVE ClosingTick(_, _)
ClosingTick(s, q) ==
  IF q > Len(s) THEN 0
  ELSE IF s[q] = BT THEN q
  ELSE ClosingTick(s, q + 1)

RECURSIVE renderInline(_)
renderInline(s) ==
  IF s = <<>> THEN <<>>
  ELSE IF s[1] = BT /\ ClosingTick(s, 3) # 0
       THEN LET q == ClosingTick(s, 3)
            IN SubSeq(s, 2, q - 1) \o renderInline(SubSeq(s, q + 1, Len(s)))
  ELSE <<s[1]>> \o renderInline(Tail(s))

\* TRUE when the inline markup of s starts with a span element.
StartsWithSpan(s) == s # <<>> /\ s[1] = BT /\ ClosingTick(s, 3) # 0

\* Line Renderer.
render(line, lineIndex, allLines, isEditing) ==
  LET ctx == detectCode(lineIndex, allLines) IN
  IF isEditing
  THEN IF ctx.inBlock
       THEN [text |-> line, tag |-> "code-block-line-editing", first |-> "elem"]
       ELSE [text |-> line, tag |-> "none",
             first |-> IF line = <<>> THEN "none" ELSE "text"]
  ELSE IF ctx.isStart
       THEN [text |-> SubstringFrom(Trim(line), 3), tag |-> "code-block-start",
             first |-> "elem"]
  ELSE IF ctx.isEnd
       THEN [text |-> <<>>, tag |-> "code-block-end", first |-> "elem"]
  ELSE IF ctx.inBlock
       THEN [text |-> line, tag |-> "code-block-line", first |-> "elem"]
  ELSE IF Trim(line) = <<>>
       THEN [text |-> <<>>, tag |-> "none", first |-> "elem"]
  ELSE [text |-> renderInline(line), tag |-> "none",
        first |-> IF StartsWithSpan(line) THEN "elem" ELSE "text"]

\* renderLatex: display math $$...$$ first, then inline math $...$; each
\* match is replaced by the markup KaTeX returns, whose text is not the
\* source.  KaTeX stands for that markup.
KaTeX == "katex"

\* The position of the "$$" that closes display math whose content starts
\* at position 3: the nearest one with at least one character before it.
RECURSIVE DisplayClose(_, _)
DisplayClose(s, q) ==
  IF q + 1 > Len(s) THEN 0
  ELSE IF s[q] = "$" /\ s[q + 1] = "$" THEN q
  ELSE DisplayClose(s, q + 1)

RECURSIVE renderDisplayMath(_)
renderDisplayMath(s) ==
  IF s = <<>> THEN <<>>
  ELSE IF Len(s) >= 2 /\ s[1] = "$" /\ s[2] = "$" /\ DisplayClose(s, 4) # 0
       THEN <<KaTeX>> \o renderDisplayMath(SubSeq(s, DisplayClose(s, 4) + 2, Len(s)))
  ELSE <<s[1]>> \o renderDisplayMath(Tail(s))

\* The position of the "$" that closes inline math opened at position 1:
\* at least one character in between, none of them "$" or a line break.
RECURSIVE InlineClose(_, _)
InlineClose(s, q) ==
  IF q > Len(s) THEN 0
  ELSE IF s[q] = "$" THEN (IF q >= 3 THEN q ELSE 0)
  ELSE IF s[q] = NL THEN 0
  ELSE InlineClose(s, q + 1)

RECURSIVE renderInlineMath(_)
renderInlineMath(s) ==
  IF s = <<>> THEN <<>>
  ELSE IF s[1] = "$" /\ InlineClose(s, 2) # 0
       THEN <<KaTeX>> \o renderInlineMath(SubSeq(s, InlineClose(s, 2) + 1, Len(s)))
  ELSE <<s[1]>> \o renderInlineMath(Tail(s))

renderLatex(text) == renderInlineMath(renderDisplayMath(text))

\* renderLatexInHtml on a render result: markup without "$" is returned as
\* it is, other markup goes through renderLatex.  A line that starts with
\* math then starts with an element.
renderLatexInHtml(r) ==
  IF \A n \in 1..Len(r.text) : r.text[n] # "$" THEN r
  ELSE LET text == renderLatex(r.text)
       IN [r EXCEPT !.text = text,
                    !.first = IF text # <<>> /\ text[1] = KaTeX THEN "elem" ELSE @]

\* convertImagePaths: markup without an img tag is returned as it is; the
\* render results of the model carry no images.
convertImagePaths(r) == r

\* The steps of renderMarkdownLine and renderMarkdownBatch after the
\* backend call: image paths, then LaTeX unless the line is being edited.
PostProcess(r, isEditing) ==
  IF isEditing THEN convertImagePaths(r)
  ELSE renderLatexInHtml(convertImagePaths(r))

\* escapeHtml: div.textContent = text; return div.innerHTML.  The
\* serialisation replaces &, < and > by their entities.
RECURSIVE escapeHtml(_)
escapeHtml(text) ==
  IF text = <<>> THEN <<>>
  ELSE (IF text[1] = "&" THEN <<"&", "a", "m", "p", ";">>
        ELSE IF text[1] = "<" THEN <<"&", "l", "t", ";">>
        ELSE IF text[1] = ">" THEN <<"&", "g", "t", ";">>
        ELSE <<text[1]>>) \o escapeHtml(Tail(text))

RECURSIVE ClosingAngle(_, _)
ClosingAngle(s, q) ==
  IF q > Len(s) THEN 0
  ELSE IF s[q] = ">" THEN q
  ELSE ClosingAngle(s, q + 1)

\* lineDiv.innerHTML = result.html, then lineDiv.textContent: the text of
\* markup without tags.  A "<" opens a tag that runs to the next ">" and
\* gives no text; an entity gives its character.
RECURSIVE TextOfHtml(_)
TextOfHtml(html) ==
  LET StartsWith(e) == Len(html) >= Len(e) /\ SubSeq(html, 1, Len(e)) = e
      After(n) == SubSeq(html, n + 1, Len(html))
      Close == ClosingAngle(html, 2)
  IN IF html = <<>> THEN <<>>
     ELSE IF StartsWith(<<"&", "a", "m", "p", ";">>) THEN <<"&">> \o TextOfHtml(After(5))
     ELSE IF StartsWith(<<"&", "l", "t", ";">>) THEN <<"<">> \o TextOfHtml(After(4))
     ELSE IF StartsWith(<<"&", "g", "t", ";">>) THEN <<">">> \o TextOfHtml(After(4))
     ELSE IF html[1] = "<" /\ Close # 0 THEN TextOfHtml(After(Close))
     ELSE <<html[1]>> \o TextOfHtml(Tail(html))

\* The catch branch of renderMarkdownBatch: one result per request, its
\* html the escaped line, is_code_block_boundary false.
renderMarkdownBatchCatch(requests) ==
  [j \in 1..Len(requests) |->
     LET html == escapeHtml(requests[j].line)
     IN [text |-> TextOfHtml(html), tag |-> "none",
         first |-> IF html = <<>> THEN "none" ELSE "text"]]

\* The catch branch of renderMarkdownLine: the escaped line.
renderMarkdownLineCatch(line) ==
  LET html == escapeHtml(line)
  IN [text |-> TextOfHtml(html), tag |-> "none",
      first |-> IF html = <<>> THEN "none" ELSE "text"]

\* renderMarkdownLine: one request; without index and context the request
\* is the line alone at index 0.
renderMarkdownLine(line, isEditing, lineIndex, allLines) ==
  IF backend = "down" THEN renderMarkdownLineCatch(line)
  ELSE PostProcess(render(line, lineIndex, allLines, isEditing), isEditing)

renderMarkdownLineAlone(line, isEditing) ==
  renderMarkdownLine(line, isEditing, 0, <<line>>)

\* A batch that delivers its results last request first.
renderMarkdownBatchReversed(requests) ==
  [j \in 1..Len(requests) |->
     LET r == requests[Len(requests) + 1 - j]
     IN PostProcess(render(r.line, r.line_index, r.all_lines, r.is_editing),
                    r.is_editing)]

\* A batch that renders LaTeX in no line.
renderMarkdownBatchNoLatex(requests) ==
  [j \in 1..Len(requests) |->
     render(requests[j].line, requests[j].line_index,
            requests[j].all_lines, requests[j].is_editing)]

\* renderMarkdownBatch: one result per request, in order.  A request is
\* [line, line_index, all_lines, is_editing].
renderMarkdownBatch(requests) ==
  IF backend = "down" THEN renderMarkdownBatchCatch(requests)
  ELSE
  [j \in 1..Len(requests) |->
     PostProcess(render(requests[j].line, requests[j].line_index,
                        requests[j].all_lines, requests[j].is_editing),
                 requests[j].is_editing)]


(***************************************************************************)
(* State.                                                                  *)
(***************************************************************************)
\* A line <div>: data-raw, textContent, data-line, class "editing", and the
\* block class and first child of its markup.
NewDiv(raw, idx, editing, r) ==
  [raw |-> raw, idx |-> idx, editing |-> editing,
   text |-> r.text, tag |-> r.tag, first |-> r.first]

\* div.innerHTML = html
SetHtml(div, r) == [div EXCEPT !.text = r.text, !.tag = r.tag, !.first = r.first]

\* div.innerHTML = rawText || "<br>", and div.textContent = rawText
PlainHtml(s) ==
  [text |-> s, tag |-> "none", first |-> IF s = <<>> THEN "elem" ELSE "text"]

TextContentHtml(s) ==
  [text |-> s, tag |-> "none", first |-> IF s = <<>> THEN "none" ELSE "text"]

NumLines == Len(lines)

\* getAllLines and getEditorContent of rendering.ts
AllLinesOf(ls) == [j \in 1..Len(ls) |-> ls[j].raw]
getAllLines == AllLinesOf(lines)
EditorContentOf(ls) == Join(AllLinesOf(ls))
getEditorContent == EditorContentOf(lines)

AllTextOf(ls) == [j \in 1..Len(ls) |-> ls[j].text]

InsertAt(ls, i, div) == SubSeq(ls, 1, i) \o <<div>> \o SubSeq(ls, i + 1, Len(ls))

\* A removal that takes the lines before line i with it.
RemoveUpTo(ls, i) == SubSeq(ls, i + 2, Len(ls))

RemoveAt(ls, i) == SubSeq(ls, 1, i) \o SubSeq(ls, i + 2, Len(ls))

(***************************************************************************)
(* The selection.  caret.at is "none" (no range), "line" (inside line      *)
(* caret.ln at text offset caret.off), "editor" (the boundary point        *)
(* (editor, caret.ln) between two lines) or "detached" (inside a node that *)
(* is no longer in the document).                                          *)
(***************************************************************************)
NoCaret == [at |-> "none", ln |-> 0, off |-> 0]
CaretAt(i, off) ==
  IF i = NULL THEN [at |-> "detached", ln |-> 0, off |-> 0]
  ELSE [at |-> "line", ln |-> i, off |-> off]

\* getCurrentLineNumber of ui.ts: the line that contains the start of the
\* range, 0 when no line does.
getCurrentLineNumberOf(c) == IF c.at = "line" THEN c.ln ELSE 0
getCurrentLineNumber == getCurrentLineNumberOf(caret)

\* preRange.selectNodeContents(line); preRange.setEnd(range.startContainer,
\* range.startOffset); preRange.toString().length: the text between the
\* start of the line and the caret; 0 when the caret is before the line or
\* in another tree.
CursorPosOf(c, ls, i) ==
  IF c.at = "line" /\ c.ln = i THEN c.off
  ELSE IF c.at = "line" /\ c.ln > i /\ c.ln < Len(ls)
       THEN SumLen(SubSeq(AllTextOf(ls), i + 1, c.ln)) + c.off
  ELSE IF c.at = "editor" /\ c.ln > i
       THEN SumLen(SubSeq(AllTextOf(ls), i + 1, Min(c.ln, Len(ls))))
  ELSE 0

\* Setting innerHTML of line i removes its children: a caret inside moves to
\* (line, 0).
CaretHtml(c, i) == IF c.at = "line" /\ c.ln = i THEN [c EXCEPT !.off = 0] ELSE c

\* Live range adjustment when line i is removed from the editor and when n
\* lines are inserted at index i.
CaretRemove(c, i) ==
  IF c.at = "line" /\ c.ln = i THEN [at |-> "editor", ln |-> i, off |-> 0]
  ELSE IF c.at \in {"line", "editor"} /\ c.ln > i THEN [c EXCEPT !.ln = @ - 1]
  ELSE c

CaretInsert(c, i, n) ==
  IF c.at = "line" /\ c.ln >= i THEN [c EXCEPT !.ln = @ + n]
  ELSE IF c.at = "editor" /\ c.ln > i THEN [c EXCEPT !.ln = @ + n]
  ELSE c

CaretClear(c) ==
  IF c.at \in {"line", "editor"} THEN [at |-> "editor", ln |-> 0, off |-> 0]
  ELSE c

\* A handler keeps references to line nodes in its local variables; the
\* model keeps the position of the node, NULL once the node is detached.
RefRemove(r, i) == IF r = i THEN NULL ELSE IF r > i THEN r - 1 ELSE r
RefInsert(r, i, n) == IF r >= i THEN r + n ELSE r

(***************************************************************************)
(* Suspended handlers.  op names the handler, pc the await it waits at;    *)
(* the other fields are its local variables: num (currentLineNum), ref and *)
(* ref2 (line nodes), pos (a cursor offset), s1, s2 (strings), ps (pasted   *)
(* lines), snap (allLines), res (the render results the awaited call will  *)
(* deliver).  pre, dom, k and inl record the raw lines, the line elements, *)
(* the caret offset and whether the caret was inside a line when the       *)
(* handler started.                                                        *)
(***************************************************************************)
Handler(op, pc) ==
  [op |-> op, pc |-> pc, num |-> 0, ref |-> NULL, ref2 |-> NULL, pos |-> 0,
   s1 |-> <<>>, s2 |-> <<>>, ps |-> <<>>, snap |-> <<>>, res |-> <<>>,
   pre |-> getAllLines, dom |-> lines, k |-> 0, inl |-> caret.at = "line",
   chained |-> FALSE, cpre |-> <<>>]

NoLast ==
  [op |-> "none", i |-> 0, k |-> 0, inl |-> FALSE, pre |-> <<>>, dom |-> <<>>,
   ps |-> <<>>, chained |-> FALSE, cpre |-> <<>>]

Completed(h) ==
  [op |-> h.op, i |-> h.num, k |-> h.k, inl |-> h.inl, pre |-> h.pre,
   dom |-> IF h.op = "paste" THEN h.dom ELSE <<>>,
   ps |-> h.ps, chained |-> h.chained, cpre |-> h.cpre]

Drop(hs, j) == SubSeq(hs, 1, j - 1) \o SubSeq(hs, j + 1, Len(hs))

RemapRemove(hs, i) ==
  [j \in 1..Len(hs) |->
     [hs[j] EXCEPT !.ref = RefRemove(@, i), !.ref2 = RefRemove(@, i)]]

RemapInsert(hs, i, n) ==
  [j \in 1..Len(hs) |->
     [hs[j] EXCEPT !.ref = RefInsert(@, i, n), !.ref2 = RefInsert(@, i, n)]]

RemapClear(hs) ==
  [j \in 1..Len(hs) |-> [hs[j] EXCEPT !.ref = NULL, !.ref2 = NULL]]

\* lineDiv.innerHTML = html through a node reference: no visible effect
\* when the node is detached.
SetHtmlAt(ls, r, html) ==
  IF r = NULL THEN ls ELSE [ls EXCEPT ![r + 1] = SetHtml(@, html)]

SetEditingAt(ls, r, b) ==
  IF r = NULL THEN ls ELSE [ls EXCEPT ![r + 1].editing = b]

CaretHtmlAt(c, r) == IF r = NULL THEN c ELSE CaretHtml(c, r)

\* The loop that writes the batch results back: for (i = from; i <
\* childNodes.length; i++) { if (results[i - from]) innerHTML = ...; class
\* editing exactly on line editIdx }.
ApplyResults(ls, from, res, editIdx) ==
  [j \in 1..Len(ls) |->
     IF j - 1 < from THEN ls[j]
     ELSE LET d == IF j - from <= Len(res) THEN SetHtml(ls[j], res[j - from])
                   ELSE ls[j]
          IN [d EXCEPT !.editing = (j - 1 = editIdx)]]

CaretApplied(c, from, res) ==
  IF c.at = "line" /\ c.ln >= from /\ c.ln - from < Len(res)
  THEN [c EXCEPT !.off = 0] ELSE c

\* The requests of such a loop: lines from..end of the current document.
BatchRequests(ls, from, editIdx) ==
  [j \in 1..(Len(ls) - from) |->
     [line |-> ls[from + j].raw, line_index |-> from + j - 1,
      all_lines |-> AllLinesOf(ls), is_editing |-> (from + j - 1 = editIdx)]]

\* No line gets a new data-line.
RenumberNone(ls, from) == ls

\* for (i = from; i < childNodes.length; i++) line.setAttribute("data-line", i)
Renumber(ls, from) ==
  [j \in 1..Len(ls) |-> IF j - 1 >= from THEN [ls[j] EXCEPT !.idx = j - 1] ELSE ls[j]]


(***************************************************************************)
(* Inputs of the model.                                                    *)
(***************************************************************************)
\* Tab contents that loadTabState is given.
LoadTexts ==
  { <<>>,
    <<"a", SP>>,
    <<BT, "a", BT>>,
    <<"a", NL, BT, "a", BT>>,
    <<BT, BT, BT, NL, "a">> }

\* Clipboard texts.
PasteTexts ==
  { <<"a">>, <<"a", NL>>, <<"a", NL, "a">>, <<NL, NL>> }

Idle(limit) == Len(inflight) < limit

Finish(j, h) ==
  /\ inflight' = Drop(inflight, j)
  /\ last' = Completed(h)

(***************************************************************************)
(* Loading a tab: loadTabState and setEditorContent.                       *)
(***************************************************************************)
\* The lines setEditorContent makes of a tab's content.
ContentLines(text) ==
  LET pieces == SplitLines(text)
  IN [j \in 1..Len(pieces) |-> TrimEnd(pieces[j])]

\* loadTabState up to "await renderMarkdownBatch(requests)" in
\* setEditorContent: the handler that waits there, and the state it leaves.
LoadHandler(tab) ==
  LET ls == ContentLines(tab.content)
      requests == [j \in 1..Len(ls) |->
                     [line |-> ls[j], line_index |-> j - 1,
                      all_lines |-> ls, is_editing |-> FALSE]]
  IN [Handler("load", "append") EXCEPT
        !.ps = ls, !.res = renderMarkdownBatch(requests)]

LoadState(tab) ==
  /\ content' = tab.content
  /\ isDirty' = tab.isDirty
  /\ currentLine' = tab.cursorLine
  /\ currentFile' = tab.filePath
  /\ lines' = <<>>
  /\ caret' = CaretClear(caret)

loadTabState(limit, tab) ==
  /\ Idle(limit)
  /\ ~focused
  /\ tab.cursorLine = NULL \/ tab.cursorLine < Len(ContentLines(tab.content))
  /\ LoadState(tab)
  /\ inflight' = Append(RemapClear(inflight), LoadHandler(tab))
  /\ last' = NoLast
  /\ UNCHANGED focused

setEditorContentAppend(j) ==
  LET h == inflight[j] IN
  /\ h.op = "load" /\ h.pc = "append"
  /\ lines' = lines \o [m \in 1..Len(h.ps) |->
                          NewDiv(h.ps[m], m - 1, FALSE, h.res[m])]
  /\ Finish(j, h)
  /\ UNCHANGED <<caret, focused, currentLine, content>>

(***************************************************************************)
(* handleCursorChange, the listener of click and keyup.                    *)
(***************************************************************************)
SpecialTags == {"code-block-line-editing", "code-block-start", "code-block-end"}

\* The second half of handleCursorChange: render the current line with its
\* markers and wait.  Gives the suspended handler, or the handler with
\* pc = "done" when there is no such line.
CursorShowRaw(h, ls, c) ==
  IF h.num < Len(ls)
  THEN LET rawText == ls[h.num + 1].raw
       IN [h EXCEPT !.pc = "new", !.ref2 = h.num, !.s1 = rawText,
                    !.pos = CursorPosOf(c, ls, h.num),
                    !.res = <<renderMarkdownLine(rawText, TRUE, h.num, h.snap)>>]
  ELSE [h EXCEPT !.pc = "done"]

\* handleCursorChange run with the collapsed selection c.
CursorChange(c) ==
  LET lineNum == getCurrentLineNumberOf(c)
      oldLine == currentLine
  IN /\ caret' = c
     /\ UNCHANGED content
     /\ last' = NoLast
     /\ IF lineNum = currentLine
        THEN UNCHANGED <<lines, currentLine, inflight>>
        ELSE /\ currentLine' = lineNum
             /\ IF oldLine # NULL /\ oldLine < NumLines
                THEN LET oldDiv == lines[oldLine + 1]
                         isSpecialBlock ==
                           \/ oldDiv.tag \in SpecialTags
                           \/ isLineInsideBlock(oldLine, getAllLines)
                         ls1 == IF oldDiv.editing /\ ~isSpecialBlock
                                THEN [lines EXCEPT ![oldLine + 1].raw = oldDiv.text]
                                ELSE lines
                         allLines == AllLinesOf(ls1)
                         rawText == ls1[oldLine + 1].raw
                         h == [Handler("cursor", "old") EXCEPT
                                 !.num = lineNum, !.ref = oldLine,
                                 !.snap = allLines,
                                 !.res = <<renderMarkdownLine(rawText, FALSE,
                                                              oldLine, allLines)>>]
                     IN /\ lines' = ls1
                        /\ inflight' = Append(inflight, h)
                ELSE LET h0 == [Handler("cursor", "start") EXCEPT
                                  !.num = lineNum, !.snap = getAllLines]
                         h == CursorShowRaw(h0, lines, c)
                     IN /\ lines' = lines
                        /\ inflight' = IF h.pc = "done" THEN inflight
                                       ELSE Append(inflight, h)

\* keyup: the selection is where the key left it.
handleCursorChange(limit) ==
  /\ Idle(limit)
  /\ focused
  /\ caret.at # "none"
  /\ CursorChange(caret)
  /\ UNCHANGED focused

\* A click on line i (or an arrow key that moves the caret there): the
\* browser puts the caret at offset off of the line, then the click (keyup)
\* listener runs.
click(limit, i, off) ==
  /\ Idle(limit)
  /\ i < NumLines
  /\ off <= Len(lines[i + 1].text)
  /\ ~(focused /\ caret = CaretAt(i, off))
  /\ focused' = TRUE
  /\ CursorChange(CaretAt(i, off))

\* The mousedown listener for a press on the editor outside its lines: the
\* caret goes to the end of the last line, state.currentLine to its index,
\* and handleCursorChange finds nothing to do.
mousedown(limit) ==
  /\ Idle(limit)
  /\ focused
  /\ LET ls1 == IF NumLines = 0
                THEN <<NewDiv(<<>>, 0, FALSE, PlainHtml(<<>>))>>
                ELSE lines
         lastLine == Len(ls1) - 1
     IN /\ lines' = ls1
        /\ caret' = CaretAt(lastLine, Len(ls1[lastLine + 1].text))
        /\ currentLine' = lastLine
  /\ last' = NoLast
  /\ UNCHANGED <<focused, content, inflight>>

\* after "await renderMarkdownLine(rawText, false, oldLine, allLines)"
handleCursorChangeOld(j) ==
  LET h == inflight[j]
      ls1 == SetEditingAt(SetHtmlAt(lines, h.ref, h.res[1]), h.ref, FALSE)
      c1 == CaretHtmlAt(caret, h.ref)
      h2 == CursorShowRaw(h, ls1, c1)
  IN /\ h.op = "cursor" /\ h.pc = "old"
     /\ lines' = ls1
     /\ caret' = c1
     /\ IF h2.pc = "done"
        THEN Finish(j, h)
        ELSE /\ inflight' = [inflight EXCEPT ![j] = h2]
             /\ UNCHANGED last
     /\ UNCHANGED <<focused, currentLine, content>>

\* after "await renderMarkdownLine(rawText, true, lineNum, allLines)"
handleCursorChangeNew(j) ==
  LET h == inflight[j] IN
  /\ h.op = "cursor" /\ h.pc = "new"
  /\ lines' = SetEditingAt(SetHtmlAt(lines, h.ref2, h.res[1]), h.ref2, TRUE)
  /\ caret' = CaretHtmlAt(caret, h.ref2)
  /\ inflight' = [inflight EXCEPT ![j] = [h EXCEPT !.pc = "frame"]]
  /\ UNCHANGED <<focused, currentLine, content, last>>

\* the requestAnimationFrame callback that restores the caret
handleCursorChangeFrame(j) ==
  LET h == inflight[j]
      text == IF h.ref2 = NULL THEN h.s1 ELSE lines[h.ref2 + 1].text
  IN /\ h.op = "cursor" /\ h.pc = "frame"
     /\ IF text # <<>>
        THEN /\ caret' = CaretAt(h.ref2, Min(h.pos, Len(text)))
             /\ UNCHANGED focused
        ELSE /\ focused' = TRUE
             /\ UNCHANGED caret
     /\ Finish(j, h)
     /\ UNCHANGED <<lines, currentLine, content>>

(***************************************************************************)
(* handleInput, called for the input event that follows a change the       *)
(* browser made to the text of a line, and by insertCodeBlock.             *)
(***************************************************************************)
\* The synchronous part, run on the DOM (ls, c) the browser left: the lines
\* after it and the suspended handler.
InputLines(ls, c) ==
  LET n == getCurrentLineNumberOf(c) IN
  IF n < Len(ls) THEN [ls EXCEPT ![n + 1].raw = ls[n + 1].text] ELSE ls

InputHandler(ls, c) ==
  LET n == getCurrentLineNumberOf(c)
      ls1 == InputLines(ls, c)
      rawText == ls[n + 1].text
  IN [Handler("input", "rendered") EXCEPT
        !.num = n, !.ref = n, !.s1 = rawText,
        !.pos = CursorPosOf(c, ls, n),
        !.res = <<renderMarkdownLine(rawText, TRUE, n, AllLinesOf(ls1))>>]

\* The text node the browser edits: an empty line gets a text node.
Edited(div, text) ==
  [div EXCEPT !.text = text,
              !.first = IF @ = "none" \/ (div.text = <<>> /\ div.tag = "none")
                        THEN "text" ELSE @]

handleInput(limit, c) ==
  /\ Idle(limit)
  /\ focused
  /\ caret.at = "line"
  /\ SumLen(getAllLines) < MaxChars
  /\ LET i == caret.ln
         div == lines[i + 1]
         text == Substring(div.text, 0, caret.off) \o <<c>>
                 \o SubstringFrom(div.text, caret.off)
         ls0 == [lines EXCEPT ![i + 1] = Edited(div, text)]
         c0 == [caret EXCEPT !.off = @ + 1]
     IN /\ lines' = InputLines(ls0, c0)
        /\ caret' = c0
        /\ inflight' = Append(inflight, [InputHandler(ls0, c0) EXCEPT !.k = caret.off])
  /\ last' = NoLast
  /\ UNCHANGED <<focused, currentLine, content>>

\* after "await renderMarkdownLine(rawText, true, currentLineNum, allLines)"
handleInputRendered(j) ==
  LET h == inflight[j]
      r == h.res[1]
      ls1 == SetHtmlAt(lines, h.ref, r)
      c1 == CaretHtmlAt(caret, h.ref)
  IN /\ h.op = "input" /\ h.pc = "rendered"
     /\ lines' = ls1
     /\ caret' = IF r.first = "text"
                 THEN CaretAt(h.ref, Min(h.pos, Len(r.text)))
                 ELSE IF r.first = "elem" /\ r.text # <<>> /\ h.pos <= Len(r.text)
                 THEN CaretAt(h.ref, h.pos)
                 ELSE c1
     /\ content' = EditorContentOf(ls1)
     /\ Finish(j, h)
     /\ UNCHANGED <<focused, currentLine>>

(***************************************************************************)
(* The blur listener of initEditorEvents and renderAllLines.               *)
(***************************************************************************)
blur(limit) ==
  /\ Idle(limit)
  /\ focused
  /\ LET ls1 == IF currentLine # NULL /\ currentLine < NumLines
                THEN [lines EXCEPT ![currentLine + 1].raw = lines[currentLine + 1].text]
                ELSE lines
         h == [Handler("blur", "rendered") EXCEPT
                 !.res = renderMarkdownBatch(BatchRequests(ls1, 0, NULL))]
     IN /\ lines' = ls1
        /\ inflight' = Append(inflight, h)
  /\ focused' = FALSE
  /\ currentLine' = NULL
  /\ last' = NoLast
  /\ UNCHANGED <<caret, content>>

\* after "await renderMarkdownBatch(requests)" in renderAllLines
renderAllLines(j) ==
  LET h == inflight[j] IN
  /\ h.op = "blur" /\ h.pc = "rendered"
  /\ lines' = ApplyResults(lines, 0, h.res, NULL)
  /\ caret' = CaretApplied(caret, 0, h.res)
  /\ Finish(j, h)
  /\ UNCHANGED <<focused, currentLine, content>>


(***************************************************************************)
(* handleEnterKey.                                                         *)
(***************************************************************************)
handleEnterKey(limit) ==
  /\ Idle(limit)
  /\ focused
  /\ caret.at # "none"
  /\ NumLines > 0 /\ NumLines < MaxLines
  /\ LET currentLineNum == getCurrentLineNumber
         currentRawText == lines[currentLineNum + 1].text
         cursorPos == CursorPosOf(caret, lines, currentLineNum)
         beforeCursor == Substring(currentRawText, 0, cursorPos)
         afterCursor == SubstringFrom(currentRawText, cursorPos)
         h == [Handler("enter", "first") EXCEPT
                 !.num = currentLineNum, !.ref = currentLineNum,
                 !.s1 = beforeCursor, !.s2 = afterCursor, !.k = cursorPos,
                 !.res = <<renderMarkdownLineAlone(beforeCursor, FALSE)>>]
     IN /\ lines' = [lines EXCEPT ![currentLineNum + 1].raw = beforeCursor]
        /\ inflight' = Append(inflight, h)
  /\ last' = NoLast
  /\ UNCHANGED <<caret, focused, currentLine, content>>

\* The data-line given to the new line.
NewLineIndex(currentLineNum) == currentLineNum + 1

\* after "await renderMarkdownLine(beforeCursor, false)": insert the new
\* line, renumber, request the batch
handleEnterKeyInsert(j) ==
  LET h == inflight[j]
      ls1 == SetEditingAt(SetHtmlAt(lines, h.ref, h.res[1]), h.ref, FALSE)
      at == IF h.ref # NULL THEN h.ref + 1 ELSE Len(lines)
      newLine == NewDiv(h.s2, NewLineIndex(h.num), TRUE, PlainHtml(h.s2))
      ls2 == Renumber(InsertAt(ls1, at, newLine), h.num + 2)
      requests == BatchRequests(ls2, h.num, h.num + 1)
      hs == RemapInsert(inflight, at, 1)
  IN /\ h.op = "enter" /\ h.pc = "first"
     /\ lines' = ls2
     /\ caret' = CaretInsert(CaretHtmlAt(caret, h.ref), at, 1)
     /\ inflight' = [hs EXCEPT ![j] = [hs[j] EXCEPT
                        !.pc = "batch", !.ref2 = at,
                        !.res = renderMarkdownBatch(requests)]]
     /\ UNCHANGED <<focused, currentLine, content, last>>

\* A handler that the rejected render call ends: no result is applied, the
\* caret and the state are left as they are.
handleEnterKeyRejected(j) ==
  LET h == inflight[j]
  IN /\ h.op = "enter" /\ h.pc = "batch"
     /\ Finish(j, h)
     /\ UNCHANGED <<lines, caret, focused, currentLine, content>>

\* after "await renderMarkdownBatch(requests)"
handleEnterKeyFinish(j) ==
  LET h == inflight[j]
      ls1 == ApplyResults(lines, h.num, h.res, h.num + 1)
  IN /\ h.op = "enter" /\ h.pc = "batch"
     /\ lines' = ls1
     /\ caret' = CaretAt(h.ref2, 0)
     /\ currentLine' = h.num + 1
     /\ content' = EditorContentOf(ls1)
     /\ Finish(j, h)
     /\ UNCHANGED focused

(***************************************************************************)
(* handleBackspaceKey.                                                     *)
(***************************************************************************)
\* Backspace at offset 0 of a line that is not the first: merge.
handleBackspaceKey(limit) ==
  /\ Idle(limit)
  /\ focused
  /\ caret.at # "none"
  /\ NumLines > 0
  /\ LET currentLineNum == getCurrentLineNumber
         cursorPos == CursorPosOf(caret, lines, currentLineNum)
         prevText == lines[currentLineNum].raw
         currentText == lines[currentLineNum + 1].raw
         mergedText == prevText \o currentText
         wasEnter == /\ last.op = "enter" /\ last.inl
                     /\ currentLineNum = last.i + 1
                     /\ caret.at = "line"
         h == [Handler("backspace", "first") EXCEPT
                 !.num = currentLineNum, !.ref = currentLineNum,
                 !.ref2 = currentLineNum - 1, !.pos = Len(prevText),
                 !.s1 = mergedText, !.k = cursorPos,
                 !.chained = wasEnter,
                 !.cpre = IF wasEnter THEN last.pre ELSE <<>>,
                 !.res = <<renderMarkdownLineAlone(mergedText, TRUE)>>]
     IN /\ currentLineNum # 0
        /\ cursorPos = 0
        /\ lines' = [lines EXCEPT ![currentLineNum].raw = mergedText]
        /\ inflight' = Append(inflight, h)
  /\ last' = NoLast
  /\ UNCHANGED <<caret, focused, currentLine, content>>

\* Backspace elsewhere: the handler returns, the browser removes the
\* character before the caret and the input event calls handleInput.
handleBackspaceKeyDefault(limit) ==
  /\ Idle(limit)
  /\ focused
  /\ caret.at = "line"
  /\ caret.off > 0
  /\ LET i == caret.ln
         div == lines[i + 1]
         text == Substring(div.text, 0, caret.off - 1)
                 \o SubstringFrom(div.text, caret.off)
         ls0 == [lines EXCEPT ![i + 1] = Edited(div, text)]
         c0 == [caret EXCEPT !.off = @ - 1]
     IN /\ lines' = InputLines(ls0, c0)
        /\ caret' = c0
        /\ inflight' = Append(inflight, [InputHandler(ls0, c0) EXCEPT !.k = caret.off])
  /\ last' = NoLast
  /\ UNCHANGED <<focused, currentLine, content>>

\* after "await renderMarkdownLine(mergedText, true)": remove the current
\* line, renumber, request the batch.  removeChild throws when the line is
\* no longer a child of the editor, which ends the handler.
handleBackspaceKeyRemove(j) ==
  LET h == inflight[j]
      ls1 == SetEditingAt(SetHtmlAt(lines, h.ref2, h.res[1]), h.ref2, TRUE)
      c1 == CaretHtmlAt(caret, h.ref2)
      ls2 == Renumber(RemoveAt(ls1, h.ref), h.num)
      requests == BatchRequests(ls2, h.num - 1, h.num - 1)
      hs == RemapRemove(inflight, h.ref)
  IN /\ h.op = "backspace" /\ h.pc = "first"
     /\ IF h.ref = NULL
        THEN /\ lines' = ls1
             /\ caret' = c1
             /\ Finish(j, [h EXCEPT !.op = "aborted"])
        ELSE /\ lines' = ls2
             /\ caret' = CaretRemove(c1, h.ref)
             /\ inflight' = [hs EXCEPT ![j] = [hs[j] EXCEPT
                                !.pc = "batch",
                                !.res = renderMarkdownBatch(requests)]]
             /\ UNCHANGED last
     /\ UNCHANGED <<focused, currentLine, content>>

\* The caret after the merge: at the merge point of the first text node of
\* the previous line; without a text node the editor is only focused.
MergeCaret(c, prevRef, mergePoint, text) ==
  IF text # <<>> THEN CaretAt(prevRef, Min(mergePoint, Len(text))) ELSE c

\* after "await renderMarkdownBatch(requests)"
handleBackspaceKeyFinish(j) ==
  LET h == inflight[j]
      ls1 == ApplyResults(lines, h.num - 1, h.res, h.num - 1)
      c1 == CaretApplied(caret, h.num - 1, h.res)
      text == IF h.ref2 = NULL THEN h.s1 ELSE ls1[h.ref2 + 1].text
  IN /\ h.op = "backspace" /\ h.pc = "batch"
     /\ lines' = ls1
     /\ caret' = MergeCaret(c1, h.ref2, h.pos, text)
     /\ focused' = TRUE
     /\ currentLine' = h.num - 1
     /\ content' = EditorContentOf(ls1)
     /\ Finish(j, h)

(***************************************************************************)
(* handleDeleteKey.                                                        *)
(***************************************************************************)
\* Delete at the end of a line that has a next line: merge.
handleDeleteKey(limit) ==
  /\ Idle(limit)
  /\ focused
  /\ caret.at # "none"
  /\ NumLines > 0
  /\ LET currentLineNum == getCurrentLineNumber
         currentText == lines[currentLineNum + 1].text
         cursorPos == CursorPosOf(caret, lines, currentLineNum)
         currentRawText == lines[currentLineNum + 1].raw
         nextText == lines[currentLineNum + 2].raw
         mergedText == currentRawText \o nextText
         h == [Handler("delete", "first") EXCEPT
                 !.num = currentLineNum, !.ref = currentLineNum,
                 !.ref2 = currentLineNum + 1, !.pos = cursorPos,
                 !.s1 = mergedText, !.k = cursorPos,
                 !.res = <<renderMarkdownLineAlone(mergedText, TRUE)>>]
     IN /\ cursorPos = Len(currentText)
        /\ currentLineNum + 1 < NumLines
        /\ lines' = [lines EXCEPT ![currentLineNum + 1].raw = mergedText]
        /\ inflight' = Append(inflight, h)
  /\ last' = NoLast
  /\ UNCHANGED <<caret, focused, currentLine, content>>

\* Delete elsewhere: the browser removes the character after the caret and
\* the input event calls handleInput.
handleDeleteKeyDefault(limit) ==
  /\ Idle(limit)
  /\ focused
  /\ caret.at = "line"
  /\ caret.off < Len(lines[caret.ln + 1].text)
  /\ LET i == caret.ln
         div == lines[i + 1]
         text == Substring(div.text, 0, caret.off)
                 \o SubstringFrom(div.text, caret.off + 1)
         ls0 == [lines EXCEPT ![i + 1] = Edited(div, text)]
     IN /\ lines' = InputLines(ls0, caret)
        /\ inflight' = Append(inflight, [InputHandler(ls0, caret) EXCEPT !.k = caret.off])
  /\ last' = NoLast
  /\ UNCHANGED <<caret, focused, currentLine, content>>

\* after "await renderMarkdownLine(mergedText, true)"
handleDeleteKeyRemove(j) ==
  LET h == inflight[j]
      ls1 == SetEditingAt(SetHtmlAt(lines, h.ref, h.res[1]), h.ref, TRUE)
      c1 == CaretHtmlAt(caret, h.ref)
      ls2 == Renumber(RemoveAt(ls1, h.ref2), h.num + 1)
      requests == BatchRequests(ls2, h.num, h.num)
      hs == RemapRemove(inflight, h.ref2)
  IN /\ h.op = "delete" /\ h.pc = "first"
     /\ IF h.ref2 = NULL
        THEN /\ lines' = ls1
             /\ caret' = c1
             /\ Finish(j, [h EXCEPT !.op = "aborted"])
        ELSE /\ lines' = ls2
             /\ caret' = CaretRemove(c1, h.ref2)
             /\ inflight' = [hs EXCEPT ![j] = [hs[j] EXCEPT
                                !.pc = "batch",
                                !.res = renderMarkdownBatch(requests)]]
             /\ UNCHANGED last
     /\ UNCHANGED <<focused, currentLine, content>>

\* The caret restore used by handleDeleteKey and handlePaste: only when the
\* first child of the line is a text node.
FirstChildCaret(c, ref, offset, first, text) ==
  IF first = "text" THEN CaretAt(ref, Min(offset, Len(text))) ELSE c

\* after "await renderMarkdownBatch(requests)"
handleDeleteKeyFinish(j) ==
  LET h == inflight[j]
      ls1 == ApplyResults(lines, h.num, h.res, h.num)
      c1 == CaretApplied(caret, h.num, h.res)
      text == IF h.ref = NULL THEN h.s1 ELSE ls1[h.ref + 1].text
      first == IF h.ref = NULL THEN TextContentHtml(h.s1).first
               ELSE ls1[h.ref + 1].first
  IN /\ h.op = "delete" /\ h.pc = "batch"
     /\ lines' = ls1
     /\ caret' = FirstChildCaret(c1, h.ref, h.pos, first, text)
     /\ content' = EditorContentOf(ls1)
     /\ Finish(j, h)
     /\ UNCHANGED <<focused, currentLine>>

(***************************************************************************)
(* handlePaste (plain text).                                               *)
(***************************************************************************)
handlePaste(limit, pastedText) ==
  /\ Idle(limit)
  /\ focused
  /\ caret.at # "none"
  /\ NumLines > 0
  /\ LET currentLineNum == getCurrentLineNumber
         cursorPos == CursorPosOf(caret, lines, currentLineNum)
         currentText == lines[currentLineNum + 1].raw
         beforeCursor == Substring(currentText, 0, cursorPos)
         afterCursor == SubstringFrom(currentText, cursorPos)
         pastedLines == SplitLines(pastedText)
         newText == beforeCursor \o pastedLines[1] \o afterCursor
         firstLineText == beforeCursor \o pastedLines[1]
         ls1 == [lines EXCEPT ![currentLineNum + 1].raw =
                   IF Len(pastedLines) = 1 THEN newText ELSE firstLineText]
         h0 == [Handler("paste", "single") EXCEPT
                  !.num = currentLineNum, !.ref = currentLineNum,
                  !.s1 = beforeCursor, !.s2 = afterCursor, !.ps = pastedLines,
                  !.k = cursorPos]
         h == IF Len(pastedLines) = 1
              THEN [h0 EXCEPT !.res = <<renderMarkdownLine(newText, TRUE,
                                          currentLineNum, AllLinesOf(ls1))>>]
              ELSE [h0 EXCEPT !.pc = "first",
                              !.res = <<renderMarkdownLineAlone(firstLineText, FALSE)>>]
     IN /\ NumLines + Len(pastedLines) - 1 <= MaxLines
        /\ SumLen(getAllLines) + SumLen(pastedLines) <= MaxChars
        /\ lines' = ls1
        /\ inflight' = Append(inflight, h)
  /\ last' = NoLast
  /\ UNCHANGED <<caret, focused, currentLine, content>>

\* single-line paste, after "await renderMarkdownLine(newText, true,
\* currentLineNum, allLines)"
handlePasteSingle(j) ==
  LET h == inflight[j]
      r == h.res[1]
      ls1 == SetEditingAt(SetHtmlAt(lines, h.ref, r), h.ref, TRUE)
      c1 == CaretHtmlAt(caret, h.ref)
      newCursorPos == Len(h.s1) + Len(h.ps[1])
  IN /\ h.op = "paste" /\ h.pc = "single"
     /\ lines' = ls1
     /\ caret' = FirstChildCaret(c1, h.ref, newCursorPos, r.first, r.text)
     /\ content' = EditorContentOf(ls1)
     /\ Finish(j, h)
     /\ UNCHANGED <<focused, currentLine>>

\* The new lines of a multi-line paste: the last one gets the text that was
\* after the cursor and the class "editing".
PastedDivs(pastedLines, afterCursor, currentLineNum) ==
  [i \in 1..(Len(pastedLines) - 1) |->
     LET isLast == (i = Len(pastedLines) - 1)
         lineText == IF isLast THEN pastedLines[i + 1] \o afterCursor
                     ELSE pastedLines[i + 1]
     IN NewDiv(lineText, currentLineNum + i, isLast, PlainHtml(lineText))]

\* multi-line paste, after "await renderMarkdownLine(firstLineText, false)"
handlePasteInsert(j) ==
  LET h == inflight[j]
      ls1 == SetEditingAt(SetHtmlAt(lines, h.ref, h.res[1]), h.ref, FALSE)
      at == IF h.ref # NULL THEN h.ref + 1 ELSE Len(lines)
      numNewLines == Len(h.ps) - 1
      ls2 == SubSeq(ls1, 1, at) \o PastedDivs(h.ps, h.s2, h.num)
             \o SubSeq(ls1, at + 1, Len(ls1))
      ls3 == Renumber(ls2, h.num + numNewLines + 1)
      requests == BatchRequests(ls3, h.num, h.num + numNewLines)
      hs == RemapInsert(inflight, at, numNewLines)
  IN /\ h.op = "paste" /\ h.pc = "first"
     /\ lines' = ls3
     /\ caret' = CaretInsert(CaretHtmlAt(caret, h.ref), at, numNewLines)
     /\ inflight' = [hs EXCEPT ![j] = [hs[j] EXCEPT
                        !.pc = "batch",
                        !.res = renderMarkdownBatch(requests)]]
     /\ UNCHANGED <<focused, currentLine, content, last>>

\* multi-line paste, after "await renderMarkdownBatch(requests)"
handlePasteFinish(j) ==
  LET h == inflight[j]
      numNewLines == Len(h.ps) - 1
      lastPastedLineNum == h.num + numNewLines
      ls1 == ApplyResults(lines, h.num, h.res, lastPastedLineNum)
      c1 == CaretApplied(caret, h.num, h.res)
      lastPastedText == h.ps[Len(h.ps)]
  IN /\ h.op = "paste" /\ h.pc = "batch"
     /\ lines' = ls1
     /\ IF lastPastedLineNum < Len(ls1)
        THEN /\ caret' = FirstChildCaret(c1, lastPastedLineNum, Len(lastPastedText),
                                         ls1[lastPastedLineNum + 1].first,
                                         ls1[lastPastedLineNum + 1].text)
             /\ currentLine' = lastPastedLineNum
        ELSE /\ caret' = c1
             /\ UNCHANGED currentLine
     /\ content' = EditorContentOf(ls1)
     /\ Finish(j, h)
     /\ UNCHANGED focused

(***************************************************************************)
(* insertCodeBlock (formatting), which ends with a call of handleInput.    *)
(***************************************************************************)
Fence == <<BT, BT, BT>>

\* The DOM after the synchronous part of insertCodeBlock that precedes
\* handleInput.
CodeBlockLines(ls, currentLineNum) ==
  LET cur == [SetHtml(ls[currentLineNum + 1], TextContentHtml(Fence))
                EXCEPT !.raw = Fence]
      codeLine == NewDiv(<<>>, currentLineNum + 1, FALSE, TextContentHtml(<<>>))
      closeLine == NewDiv(Fence, currentLineNum + 2, FALSE, TextContentHtml(Fence))
      ls1 == [ls EXCEPT ![currentLineNum + 1] = cur]
      ls2 == InsertAt(InsertAt(ls1, currentLineNum + 1, closeLine),
                      currentLineNum + 1, codeLine)
  IN Renumber(ls2, currentLineNum + 3)

insertCodeBlock(limit) ==
  /\ Idle(limit)
  /\ focused
  /\ NumLines > 0
  /\ LET currentLineNum == getCurrentLineNumber
         rawText == lines[currentLineNum + 1].raw
         blank == Trim(rawText) = <<>>
         ls0 == IF blank THEN CodeBlockLines(lines, currentLineNum) ELSE lines
         c0 == IF blank THEN CaretAt(currentLineNum + 1, 0) ELSE caret
         hs == IF blank THEN RemapInsert(inflight, currentLineNum + 1, 2)
               ELSE inflight
         h == [InputHandler(ls0, c0) EXCEPT !.op = "codeblock",
                  !.num = currentLineNum, !.k = IF blank THEN 1 ELSE 0]
     IN /\ blank => NumLines + 2 <= MaxLines
        /\ lines' = InputLines(ls0, c0)
        /\ caret' = c0
        /\ inflight' = Append(hs, h)
  /\ last' = NoLast
  /\ UNCHANGED <<focused, currentLine, content>>

\* handleInput called by insertCodeBlock, after its await
insertCodeBlockRendered(j) ==
  LET h == inflight[j]
      r == h.res[1]
      ls1 == SetHtmlAt(lines, h.ref, r)
      c1 == CaretHtmlAt(caret, h.ref)
  IN /\ h.op = "codeblock" /\ h.pc = "rendered"
     /\ lines' = ls1
     /\ caret' = IF r.first = "text"
                 THEN CaretAt(h.ref, Min(h.pos, Len(r.text)))
                 ELSE IF r.first = "elem" /\ r.text # <<>> /\ h.pos <= Len(r.text)
                 THEN CaretAt(h.ref, h.pos)
                 ELSE c1
     /\ content' = EditorContentOf(ls1)
     /\ Finish(j, h)
     /\ UNCHANGED <<focused, currentLine>>

(***************************************************************************)
(* Key events handled in turn.  serial is the document that the Enter      *)
(* events pressed since the editor was last idle give when each handler    *)
(* runs to completion before the next starts: its raw lines, and the line  *)
(* and offset of the caret.  NoSerial when other events are among them.    *)
(***************************************************************************)
NoSerial == [lines |-> <<>>, ln |-> NULL, off |-> 0]

\* handleEnterKey run to completion on the document s: the text of the
\* caret's line is split at the offset, the caret goes to the start of the
\* new line.
EnterInTurn(s) ==
  LET t == s.lines[s.ln + 1]
  IN [lines |-> SubSeq(s.lines, 1, s.ln)
                \o <<Substring(t, 0, s.off), SubstringFrom(t, s.off)>>
                \o SubSeq(s.lines, s.ln + 2, Len(s.lines)),
      ln |-> s.ln + 1,
      off |-> 0]

\* What handleEnterKey reads when it starts with no handler suspended: the
\* raw lines, with the textContent of the caret's line, and the caret.
Pending ==
  LET currentLineNum == getCurrentLineNumber
  IN IF inflight = <<>>
     THEN [lines |-> [getAllLines EXCEPT ![currentLineNum + 1] =
                                          lines[currentLineNum + 1].text],
           ln |-> currentLineNum,
           off |-> CursorPosOf(caret, lines, currentLineNum)]
     ELSE serial

QueuedEnter ==
  serial' = IF inflight # <<>> /\ serial = NoSerial THEN NoSerial
            ELSE EnterInTurn(Pending)

Untracked == serial' = NoSerial

\* No function is under examination in the editor.
NoRet == [fn |-> "none"]

(***************************************************************************)
(* The tab records: tabs.ts.  A record holds filePath, content, isDirty    *)
(* and cursorLine; NoFile is the filePath null of an unnamed tab.          *)
(***************************************************************************)
NoFile == "null"

Files == {"f"}

\* No file has been written.
Unwritten == <<"unwritten">>
NoStorage == [p \in Files |-> Unwritten]

createTab(filePath, text) ==
  [filePath |-> filePath, content |-> text, isDirty |-> FALSE, cursorLine |-> NULL]

\* activeTabIndex >= 0 && activeTabIndex < tabs.length
HasActiveTab == activeTabIndex >= 0 /\ activeTabIndex < Len(tabs)

\* updateCurrentTabContent(state.content); markCurrentTabDirty()
TabUpdated ==
  /\ tabs' = IF HasActiveTab
             THEN [tabs EXCEPT ![activeTabIndex + 1].content = content',
                               ![activeTabIndex + 1].isDirty = TRUE]
             ELSE tabs
  /\ isDirty' = (isDirty \/ HasActiveTab)
  /\ UNCHANGED <<activeTabIndex, currentFile, storage>>

\* markDirty()
markDirty ==
  /\ isDirty' = TRUE
  /\ UNCHANGED <<tabs, activeTabIndex, currentFile, storage>>

\* The handlers that end with updateCurrentTabContent and
\* markCurrentTabDirty, and those that end with markDirty.
TabUpdatingOps == {"enter", "paste", "input", "codeblock"}
DirtyingOps == {"backspace", "delete"}

\* What the handler that completes in a step does to the tab records.
Bookkeeping ==
  IF last'.op \in TabUpdatingOps THEN TabUpdated
  ELSE IF last'.op \in DirtyingOps THEN markDirty
  ELSE UNCHANGED tabvars

(***************************************************************************)
(* Specifications.                                                         *)
(***************************************************************************)
\* The editor before a tab is loaded.
EditorInit ==
  /\ lines = <<>>
  /\ caret = NoCaret
  /\ focused = FALSE
  /\ currentLine = NULL
  /\ content = <<>>
  /\ inflight = <<>>
  /\ last = NoLast
  /\ serial = NoSerial
  /\ backend = "up"
  /\ tabs = <<>>
  /\ activeTabIndex = -1
  /\ isDirty = FALSE
  /\ currentFile = NoFile
  /\ storage = NoStorage

Init ==
  /\ EditorInit
  /\ arg = <<>>
  /\ ret = NoRet

\* The editor steps leave the function under examination alone; the step
\* in which a handler completes does the handler's bookkeeping.
Editor == UNCHANGED <<arg, ret, backend>> /\ Bookkeeping

\* A step that is no key event arriving behind a suspended handler.
Plain == UNCHANGED serial

\* Events delivered while fewer than limit handlers are suspended: opening
\* a tab, the DOM events that change the line sequence, and the others.
LoadEvent(limit) ==
  \E text \in LoadTexts, cursorLine \in {NULL, 0, 1} :
    /\ loadTabState(limit, [createTab(NoFile, text) EXCEPT !.cursorLine = cursorLine])
    /\ Untracked
    /\ UNCHANGED <<arg, ret, backend, tabs, activeTabIndex, storage>>

CaretEvent(limit) ==
  \/ \E i \in 0..MaxLines, off \in 0..MaxChars :
       click(limit, i, off) /\ Untracked /\ Editor
  \/ handleCursorChange(limit) /\ Untracked /\ Editor
  \/ mousedown(limit) /\ Untracked /\ Editor

StructuralEvent(limit) ==
  \/ handleEnterKey(limit) /\ Plain /\ Editor
  \/ handleBackspaceKey(limit) /\ Plain /\ Editor
  \/ handleDeleteKey(limit) /\ Plain /\ Editor
  \/ \E pastedText \in PasteTexts :
       handlePaste(limit, pastedText) /\ Plain /\ Editor

TextEvent(limit) ==
  \/ \E c \in TypedChars : handleInput(limit, c) /\ Plain /\ Editor
  \/ blur(limit) /\ Plain /\ Editor
  \/ handleBackspaceKeyDefault(limit) /\ Plain /\ Editor
  \/ handleDeleteKeyDefault(limit) /\ Plain /\ Editor
  \/ insertCodeBlock(limit) /\ Plain /\ Editor

\* The resolution of the render call that a suspended handler waits for.
StructuralResume ==
  \/ \E j \in 1..Len(inflight) : setEditorContentAppend(j) /\ Plain /\ Editor
  \/ \E j \in 1..Len(inflight) : handleEnterKeyInsert(j) /\ Plain /\ Editor
  \/ \E j \in 1..Len(inflight) : handleEnterKeyFinish(j) /\ Plain /\ Editor
  \/ \E j \in 1..Len(inflight) : handleBackspaceKeyRemove(j) /\ Plain /\ Editor
  \/ \E j \in 1..Len(inflight) : handleBackspaceKeyFinish(j) /\ Plain /\ Editor
  \/ \E j \in 1..Len(inflight) : handleDeleteKeyRemove(j) /\ Plain /\ Editor
  \/ \E j \in 1..Len(inflight) : handleDeleteKeyFinish(j) /\ Plain /\ Editor
  \/ \E j \in 1..Len(inflight) : handlePasteSingle(j) /\ Plain /\ Editor
  \/ \E j \in 1..Len(inflight) : handlePasteInsert(j) /\ Plain /\ Editor
  \/ \E j \in 1..Len(inflight) : handlePasteFinish(j) /\ Plain /\ Editor

CaretResume ==
  \/ \E j \in 1..Len(inflight) : handleCursorChangeOld(j) /\ Plain /\ Editor
  \/ \E j \in 1..Len(inflight) : handleCursorChangeNew(j) /\ Plain /\ Editor
  \/ \E j \in 1..Len(inflight) : handleCursorChangeFrame(j) /\ Plain /\ Editor

TextResume ==
  \/ \E j \in 1..Len(inflight) : handleInputRendered(j) /\ Plain /\ Editor
  \/ \E j \in 1..Len(inflight) : renderAllLines(j) /\ Plain /\ Editor
  \/ \E j \in 1..Len(inflight) : insertCodeBlockRendered(j) /\ Plain /\ Editor

\* Events arrive one at a time, each after the handler of the previous one
\* has completed.
Next ==
  \/ LoadEvent(1)
  \/ CaretEvent(1)
  \/ StructuralEvent(1)
  \/ TextEvent(1)
  \/ StructuralResume
  \/ CaretResume
  \/ TextResume

Spec == Init /\ [][Next]_vars

\* The document is small enough for events to overlap suspended handlers.
AsyncRoom == SumLen(getAllLines) <= MaxAsyncChars /\ NumLines <= MaxAsyncLines

\* Key and paste events arrive whenever the browser dispatches them, also
\* while handlers are suspended; a tab is opened and the caret is moved
\* when no handler is suspended.
AsyncEvent ==
  \/ AsyncRoom /\ handleEnterKey(MaxInFlight) /\ QueuedEnter /\ Editor
  \/ AsyncRoom /\ handleBackspaceKey(MaxInFlight) /\ Untracked /\ Editor
  \/ AsyncRoom /\ handleDeleteKey(MaxInFlight) /\ Untracked /\ Editor
  \/ \E pastedText \in PasteTexts :
       AsyncRoom /\ handlePaste(MaxInFlight, pastedText) /\ Untracked /\ Editor

NextAsync ==
  \/ LoadEvent(1)
  \/ CaretEvent(1)
  \/ AsyncEvent
  \/ StructuralResume
  \/ CaretResume

SpecAsync == Init /\ [][NextAsync]_vars

(***************************************************************************)
(* Properties.  last is the handler that completed in the step that led to *)
(* the state: last.i its line index, last.k the caret offset and last.pre  *)
(* the raw lines when it started; last.inl tells that the caret was inside *)
(* a line then.                                                            *)
(***************************************************************************)
EditingFrom(from, ed) ==
  \A j \in (from + 1)..NumLines : lines[j].editing <=> (j = ed + 1)

\* C1 - Split (Enter): once handleEnterKey has completed for a caret at
\* offset k of line i, line i has raw text[0..k), the new line i+1 has raw
\* text[k..), the line count has grown by 1, line i+1 is editing and line i
\* is not, the caret is at offset 0 of line i+1 and state.currentLine = i+1.
C1_EnterSplits ==
  (last.op = "enter" /\ last.inl /\ last.k <= Len(last.pre[last.i + 1])) =>
    LET i == last.i
        k == last.k
        text == last.pre[i + 1]
    IN /\ NumLines = Len(last.pre) + 1
       /\ lines[i + 1].raw = Substring(text, 0, k)
       /\ lines[i + 2].raw = SubstringFrom(text, k)
       /\ lines[i + 2].editing /\ ~lines[i + 1].editing
       /\ caret = CaretAt(i + 1, 0)
       /\ currentLine = i + 1

\* C2 - Merge-backward: once handleBackspaceKey has completed for a caret
\* at offset 0 of line i > 0, line i-1 has raw oldRaw(i-1) + oldRaw(i), the
\* line count has decreased by 1, line i-1 is the editing line,
\* state.currentLine = i-1 and the caret is at offset len(oldRaw(i-1)) of
\* the merged line.
C2_BackspaceMerges ==
  (last.op = "backspace" /\ last.inl) =>
    LET i == last.i
        pre == last.pre
    IN /\ NumLines = Len(pre) - 1
       /\ lines[i].raw = pre[i] \o pre[i + 1]
       /\ EditingFrom(i - 1, i - 1)
       /\ currentLine = i - 1
       /\ caret = CaretAt(i - 1, Len(pre[i]))

\* C3 - Merge-forward: once handleDeleteKey has completed for a caret at
\* the end of a line i that is not the last, line i has raw oldRaw(i) +
\* oldRaw(i+1), the line count has decreased by 1, line i is the editing
\* line and the caret is at the offset it had before the key press.
C3_DeleteMerges ==
  (last.op = "delete" /\ last.inl) =>
    LET i == last.i
        pre == last.pre
    IN /\ NumLines = Len(pre) - 1
       /\ lines[i + 1].raw = pre[i + 1] \o pre[i + 2]
       /\ EditingFrom(i, i)
       /\ caret = CaretAt(i, last.k)

\* C4 - Split/merge inverse: Enter at offset k of a line followed by
\* Backspace at offset 0 of the resulting second line yields the raw lines
\* (count and text) the document had before the Enter.
C4_EnterBackspaceInverse ==
  (last.op = "backspace" /\ last.chained) => getAllLines = last.cpre

\* C5 - Multi-line paste: once handlePaste has completed for a text of
\* m >= 2 lines p1..pm pasted at offset k of line i with raw b+a, lines
\* i..i+m-1 have raw b+p1, p2, ..., p(m-1), pm+a, the line count has grown
\* by m-1, line i+m-1 is the only editing line from i onward, the caret is
\* at offset len(pm) of line i+m-1 and state.currentLine = i+m-1.
C5_MultiLinePaste ==
  (last.op = "paste" /\ last.inl /\ Len(last.ps) >= 2) =>
    LET i == last.i
        m == Len(last.ps)
        b == Substring(last.pre[i + 1], 0, last.k)
        a == SubstringFrom(last.pre[i + 1], last.k)
    IN /\ NumLines = Len(last.pre) + m - 1
       /\ lines[i + 1].raw = b \o last.ps[1]
       /\ \A j \in 2..(m - 1) : lines[i + j].raw = last.ps[j]
       /\ lines[i + m].raw = last.ps[m] \o a
       /\ EditingFrom(i, i + m - 1)
       /\ caret = CaretAt(i + m - 1, Len(last.ps[m]))
       /\ currentLine = i + m - 1

\* C6 - Single-line paste: once handlePaste has completed for a text p
\* without a line break pasted at offset k of line i with raw b+a, line i
\* has raw b+p+a, the line count is unchanged, every other line is unchanged
\* (raw text and markup) and the caret is at offset len(b)+len(p) of line i.
C6_SingleLinePaste ==
  (last.op = "paste" /\ last.inl /\ Len(last.ps) = 1) =>
    LET i == last.i
        b == Substring(last.pre[i + 1], 0, last.k)
        a == SubstringFrom(last.pre[i + 1], last.k)
    IN /\ NumLines = Len(last.pre)
       /\ lines[i + 1].raw = b \o last.ps[1] \o a
       /\ \A j \in 1..NumLines : j # i + 1 => lines[j] = last.dom[j]
       /\ caret = CaretAt(i, Len(b) + Len(last.ps[1]))

\* C7 - Index invariant: after load and after every completed structural
\* mutation (Enter, Backspace merge, Delete merge, multi-line paste,
\* insertCodeBlock) the data-line of every line equals its position, so no
\* two lines carry the same index.
StructuralOps == {"load", "enter", "backspace", "delete", "paste", "codeblock"}

C7_IndexIsPosition ==
  (last.op \in StructuralOps) => \A j \in 1..NumLines : lines[j].idx = j - 1

\* C8 - Content invariant: after every completed operation that loads or
\* edits the document, state.content equals the raw texts of all lines
\* joined with "\n".
ContentOps == {"load", "input", "enter", "backspace", "delete", "paste"}

C8_ContentIsJoin ==
  (last.op \in ContentOps) => content = getEditorContent

\* The raw lines a suspended structural handler leaves when it completes,
\* computed from the raw lines it started from and its own split or merge.
PostOf(h) ==
  LET i == h.num
      pre == h.pre
  IN IF h.op = "enter"
     THEN SubSeq(pre, 1, i) \o <<h.s1, h.s2>> \o SubSeq(pre, i + 2, Len(pre))
     ELSE IF h.op = "backspace"
     THEN SubSeq(pre, 1, i - 1) \o <<h.s1>> \o SubSeq(pre, i + 2, Len(pre))
     ELSE IF h.op = "delete"
     THEN SubSeq(pre, 1, i) \o <<h.s1>> \o SubSeq(pre, i + 3, Len(pre))
     ELSE IF Len(h.ps) = 1
     THEN [pre EXCEPT ![i + 1] = h.s1 \o h.ps[1] \o h.s2]
     ELSE SubSeq(pre, 1, i) \o <<h.s1 \o h.ps[1]>>
          \o SubSeq(h.ps, 2, Len(h.ps) - 1)
          \o <<h.ps[Len(h.ps)] \o h.s2>> \o SubSeq(pre, i + 2, Len(pre))

KeyOps == {"enter", "backspace", "delete", "paste"}

\* C9 - Atomicity: wherever handleEnterKey, handleBackspaceKey,
\* handleDeleteKey or handlePaste is suspended at an await and another
\* handler can run, the raw lines are the complete document before the
\* operation or the complete document after it.
C9_AtomicAtAwait ==
  (Len(inflight) = 1 /\ inflight[1].op \in KeyOps) =>
    getAllLines \in {inflight[1].pre, PostOf(inflight[1])}

\* C10 - Serial handling: no two edit handlers are in progress at the same
\* time; a handler started by a later event does not begin before the
\* earlier handler has finished.
C10_OneHandlerAtATime ==
  Cardinality({j \in 1..Len(inflight) : inflight[j].op \in KeyOps}) <= 1

\* C11 - Queued keystrokes: when key events arrive while an earlier handler
\* still waits for a render, the raw lines after all handlers have finished
\* are those that handling the events one at a time in arrival order gives
\* (checked for the Enter events pressed since the editor was last idle).
C11_QueuedAsInTurn ==
  (inflight = <<>> /\ serial # NoSerial) => getAllLines = serial.lines

(***************************************************************************)
(* setEditorContent on its own: a tab with any text is loaded.             *)
(***************************************************************************)
TextChars == {"a", SP, NL, CR}

Texts == UNION {[1..n -> TextChars] : n \in 0..MaxTextLen}

InitLoad ==
  /\ EditorInit
  /\ arg \in Texts
  /\ ret = NoRet

NextLoad ==
  \/ /\ loadTabState(1, createTab(NoFile, arg))
     /\ Plain
     /\ UNCHANGED <<arg, ret, backend, tabs, activeTabIndex, storage>>
  \/ \E j \in 1..Len(inflight) : setEditorContentAppend(j) /\ Plain /\ Editor

SpecLoad == InitLoad /\ [][NextLoad]_vars

\* T with its line breaks (\n, \r\n) written as \n and the white space at
\* the end of every line removed, read from the end of the text: eol tells
\* that only white space lies between position n and the end of the line.
RECURSIVE NormalisedUpTo(_, _, _)
NormalisedUpTo(T, n, eol) ==
  IF n = 0 THEN <<>>
  ELSE IF T[n] = NL
       THEN NormalisedUpTo(T, IF n > 1 /\ T[n - 1] = CR THEN n - 2 ELSE n - 1, TRUE)
            \o <<NL>>
  ELSE IF eol /\ T[n] \in {SP, CR}
       THEN NormalisedUpTo(T, n - 1, TRUE)
  ELSE NormalisedUpTo(T, n - 1, FALSE) \o <<T[n]>>

Normalised(T) == NormalisedUpTo(T, Len(T), TRUE)

LineBreaks(T) == Cardinality({n \in 1..Len(T) : T[n] = NL})

\* C12 - Load round-trip: after setEditorContent(T) the raw lines joined
\* with "\n" are T with line breaks normalised and trailing white space
\* removed from every line; there is one line per piece of T, every line's
\* index is its position and no line is marked editing.
C12_LoadRoundTrip ==
  (last.op = "load") =>
    /\ getEditorContent = Normalised(arg)
    /\ NumLines = LineBreaks(arg) + 1
    /\ \A j \in 1..NumLines : lines[j].idx = j - 1 /\ ~lines[j].editing

C12_LoadedWindowsText ==
  /\ last.op = "load"
  /\ arg = <<"a", SP, CR, NL>>
  /\ getAllLines = <<<<"a">>, <<>>>>

(***************************************************************************)
(* isLineInsideBlock on its own: it is called for a line of any document.  *)
(***************************************************************************)
DocLines ==
  { <<"a">>, Fence, Fence \o <<"a">>, <<"$", "$">>, <<SP, "$", "$">> }

Docs == UNION {[1..n -> DocLines] : n \in 1..MaxDocLines}

InitBlocks ==
  /\ EditorInit
  /\ arg \in Docs
  /\ ret = NoRet

callIsLineInsideBlock(lineIndex) ==
  /\ ret' = [fn |-> "isLineInsideBlock", lineIndex |-> lineIndex,
             value |-> isLineInsideBlock(lineIndex, arg)]
  /\ UNCHANGED <<lines, caret, focused, currentLine, content, inflight, last,
                 serial, arg, backend, tabvars>>

NextBlocks == \E lineIndex \in 0..(Len(arg) - 1) : callIsLineInsideBlock(lineIndex)

SpecBlocks == InitBlocks /\ [][NextBlocks]_vars

\* The positions (from 1) of the fence lines of a document, by kind.
CodeFenceLines(doc) == {n \in 1..Len(doc) : StartsWithFence(Trim(doc[n]))}
MathFenceLines(doc) == {n \in 1..Len(doc) : Trim(doc[n]) = <<"$", "$">>}

Called == ret.fn = "isLineInsideBlock"

\* C13 - Block toggle: in a document with exactly two fence lines, both of
\* the same kind, isLineInsideBlock is true for every line strictly between
\* them and false for the fence lines and for the lines before the first
\* and after the second.
C13_BlockToggle ==
  LET code == CodeFenceLines(arg)
      math == MathFenceLines(arg)
      fences == code \union math
  IN (Called /\ Cardinality(fences) = 2 /\ (code = {} \/ math = {})) =>
       (ret.value <=>
          \E lo \in fences, hi \in fences :
            lo < ret.lineIndex + 1 /\ ret.lineIndex + 1 < hi)

C13_LineBetweenFences ==
  /\ Called
  /\ arg = <<Fence, <<"a">>, Fence, <<"a">>>>
  /\ ret.lineIndex = 1
  /\ ret.value

\* C14 - Unterminated fence: in a document where the number of fence lines
\* of one kind is odd, isLineInsideBlock is true for every line after the
\* last fence line of that kind.
C14_UnterminatedFence ==
  \A kind \in {CodeFenceLines(arg), MathFenceLines(arg)} :
    (Called /\ Cardinality(kind) % 2 = 1
            /\ \A n \in kind : n < ret.lineIndex + 1) => ret.value

\* C15 - Detector agreement: for every document and line index,
\* isLineInsideBlock(i, lines) equals code.inBlock OR math.inBlock of the
\* Block Context Detector, the two kinds toggled independently.
C15_DetectorAgreement ==
  Called =>
    (ret.value <=> (detectCode(ret.lineIndex, arg).inBlock
                    \/ detectMath(ret.lineIndex, arg).inBlock))

\* C16 - Editing line shows markers: whenever edit mode is on (the editor
\* has the focus), the handlers have completed and state.currentLine = i,
\* the displayed text of line i equals its raw text character for
\* character.
C16_CurrentLineShowsRaw ==
  (focused /\ inflight = <<>> /\ currentLine # NULL /\ currentLine < NumLines) =>
    lines[currentLine + 1].text = lines[currentLine + 1].raw

\* C17 - No information loss on navigation: an operation that only moves
\* the caret or the focus (handleCursorChange between lines, editor blur)
\* leaves the raw text of every line as it was when the operation started.
NavigationOps == {"cursor", "blur"}

C17_NavigationKeepsRaw ==
  (last.op \in NavigationOps) => getAllLines = last.pre

\* The block classification that a line's markup displays, and the one the
\* block context of the raw lines gives it.
ClassOfTag(tag) ==
  IF tag \in {"code-block-start", "code-block-end"} THEN "boundary"
  ELSE IF tag \in {"code-block-line", "code-block-line-editing"} THEN "inside"
  ELSE "normal"

ClassInContext(lineIndex, allLines) ==
  LET ctx == detectCode(lineIndex, allLines)
  IN IF ctx.isStart \/ ctx.isEnd THEN "boundary"
     ELSE IF ctx.inBlock THEN "inside"
     ELSE "normal"

RawChangingOps == {"input", "paste", "enter", "backspace", "delete", "codeblock"}

\* C18 - Rendered cache validity: after a completed operation that changes
\* a line's raw text, the displayed block classification of every line that
\* is not being edited (no class editing, not the caret's line) agrees with
\* the block context computed from the current raw lines.
C18_DisplayMatchesContext ==
  (last.op \in RawChangingOps) =>
    \A j \in 1..NumLines :
      (~lines[j].editing /\ j - 1 # getCurrentLineNumber) =>
        ClassOfTag(lines[j].tag) = ClassInContext(j - 1, getAllLines)


\* C19 - Caret always set: once an Enter, a Backspace merge, a Delete merge
\* or a paste that started with the caret inside a line has completed, the
\* caret is inside a line of the document, at an offset between 0 and the
\* length of that line's text.
C19_CaretAlwaysSet ==
  (last.op \in KeyOps /\ last.inl) =>
    /\ caret.at = "line"
    /\ caret.ln < NumLines
    /\ caret.off <= Len(lines[caret.ln + 1].text)


(***************************************************************************)
(* renderMarkdownBatch as a function of its request list, with both       *)
(* outcomes of the backend call.                                           *)
(***************************************************************************)
BatchLines == {<<>>, <<"<", "&">>, Fence, <<"$", "a", "$">>}

BatchDocs == UNION {[1..n -> BatchLines] : n \in 1..MaxBatchLines}

\* The request lists over a document: each request names a line of the
\* document and says whether the line is being edited.
RequestsOver(allLines) ==
  LET One == {[line |-> allLines[i + 1], line_index |-> i,
               all_lines |-> allLines, is_editing |-> e] :
                i \in 0..(Len(allLines) - 1), e \in BOOLEAN}
  IN UNION {[1..n -> One] : n \in 0..MaxBatch}

InitBatch ==
  /\ EditorInit
  /\ \E allLines \in BatchDocs : arg \in RequestsOver(allLines)
  /\ ret = NoRet

callRenderMarkdownBatch(ok) ==
  /\ ret' = [fn |-> "renderMarkdownBatch", ok |-> ok,
             value |-> IF ok THEN renderMarkdownBatch(arg)
                       ELSE renderMarkdownBatchCatch(arg)]
  /\ UNCHANGED <<lines, caret, focused, currentLine, content, inflight, last,
                 serial, arg, backend, tabvars>>

\* renderMarkdownLine for request j of the list, alone.
callRenderMarkdownLine(j, ok) ==
  /\ ret' = [fn |-> "renderMarkdownLine", j |-> j, ok |-> ok,
             value |-> IF ok
                       THEN renderMarkdownLine(arg[j].line, arg[j].is_editing,
                                               arg[j].line_index, arg[j].all_lines)
                       ELSE renderMarkdownLineCatch(arg[j].line)]
  /\ UNCHANGED <<lines, caret, focused, currentLine, content, inflight, last,
                 serial, arg, backend, tabvars>>

\* The backend's batch call when rendering fails for the requests at the
\* positions in failed: those results are the escaped line without a block
\* class, the others are the Line Renderer's.
render_markdown_batch(requests, failed) ==
  [j \in 1..Len(requests) |->
     IF j \in failed THEN renderMarkdownLineCatch(requests[j].line)
     ELSE render(requests[j].line, requests[j].line_index,
                 requests[j].all_lines, requests[j].is_editing)]

\* renderMarkdownBatch over such a call: results.map(...) post-processes
\* every result the backend returns.
renderMarkdownBatchOver(requests, failed) ==
  [j \in 1..Len(requests) |->
     PostProcess(render_markdown_batch(requests, failed)[j],
                 requests[j].is_editing)]

callRenderMarkdownBatchOver(failed) ==
  /\ failed # {}
  /\ ret' = [fn |-> "renderMarkdownBatchOver", failed |-> failed,
             value |-> renderMarkdownBatchOver(arg, failed)]
  /\ UNCHANGED <<lines, caret, focused, currentLine, content, inflight, last,
                 serial, arg, backend, tabvars>>

NextBatch ==
  \/ \E ok \in BOOLEAN : callRenderMarkdownBatch(ok)
  \/ \E j \in 1..Len(arg), ok \in BOOLEAN : callRenderMarkdownLine(j, ok)
  \/ \E failed \in SUBSET (1..Len(arg)) : callRenderMarkdownBatchOver(failed)

SpecBatch == InitBatch /\ [][NextBatch]_vars

C22_FailureIsolated ==
  (ret.fn = "renderMarkdownBatchOver") =>
    \A j \in 1..Len(arg) :
      IF j \in ret.failed
      THEN ret.value[j] = renderMarkdownLineCatch(arg[j].line)
      ELSE ret.value[j] = renderMarkdownBatch(arg)[j]


(***************************************************************************)
(* Editing while the backend's render calls may fail.                      *)
(***************************************************************************)
\* invoke("render_markdown", ...) and invoke("render_markdown_batch", ...)
\* start to reject, and resolve again.
backendFails ==
  /\ backend = "up"
  /\ backend' = "down"
  /\ UNCHANGED <<lines, caret, focused, currentLine, content, inflight, last,
                 serial, arg, ret, tabvars>>

backendRecovers ==
  /\ backend = "down"
  /\ backend' = "up"
  /\ UNCHANGED <<lines, caret, focused, currentLine, content, inflight, last,
                 serial, arg, ret, tabvars>>

NextFail ==
  \/ backendFails
  \/ backendRecovers
  \/ LoadEvent(1)
  \/ CaretEvent(1)
  \/ handleEnterKey(1) /\ QueuedEnter /\ Editor
  \/ \E j \in 1..Len(inflight) : setEditorContentAppend(j) /\ Plain /\ Editor
  \/ \E j \in 1..Len(inflight) : handleEnterKeyInsert(j) /\ Plain /\ Editor
  \/ \E j \in 1..Len(inflight) : handleEnterKeyFinish(j) /\ Plain /\ Editor
  \/ CaretResume

SpecFail == Init /\ [][NextFail]_vars

\* C23 - Render failure fallback: whether the render calls of an Enter
\* succeed or fail, once handleEnterKey has completed the raw lines are the
\* ones of the split of the line's text at the caret, every line's
\* data-line is its position and state.currentLine is the new line.
C23_EnterDespiteFailure ==
  (last.op = "enter" /\ serial # NoSerial) =>
    /\ getAllLines = serial.lines
    /\ \A j \in 1..NumLines : lines[j].idx = j - 1
    /\ currentLine = serial.ln

\* An Enter has completed although its batch render failed: the line it
\* left is displayed as its escaped raw text, code span markers included.
C23_EnterWithFailedBatch ==
  /\ last.op = "enter"
  /\ serial # NoSerial
  /\ backend = "down"
  /\ NumLines = Len(last.pre) + 1
  /\ lines[last.i + 1].raw = <<BT, "a", BT>>
  /\ lines[last.i + 1].text = <<BT, "a", BT>>
  /\ ~lines[last.i + 1].editing


(***************************************************************************)
(* Backspace and Delete at the two ends of the document.                   *)
(***************************************************************************)
\* What such a key press leaves behind for the properties.
Returned(op) ==
  [NoLast EXCEPT !.op = op, !.i = getCurrentLineNumber,
                 !.k = CursorPosOf(caret, lines, getCurrentLineNumber),
                 !.inl = TRUE, !.pre = getAllLines]

\* Backspace with the caret at the start of line 0: handleBackspaceKey
\* returns at "currentLineNum === 0" without preventDefault, and the browser
\* finds nothing before the caret to remove.
handleBackspaceKeyFirstLine(limit) ==
  /\ Idle(limit)
  /\ focused
  /\ caret.at = "line"
  /\ NumLines > 0
  /\ getCurrentLineNumber = 0
  /\ caret.off = 0
  /\ last' = Returned("backspace-first")
  /\ UNCHANGED <<lines, caret, focused, currentLine, content, inflight>>

\* A Delete that gives up the current line.
handleDeleteKeyLeavesLine(limit) ==
  /\ Idle(limit)
  /\ focused
  /\ caret.at = "line"
  /\ NumLines > 0
  /\ currentLine' = NULL
  /\ last' = Returned("delete-last")
  /\ UNCHANGED <<lines, caret, focused, content, inflight>>

\* Delete with the caret at the end of the last line: handleDeleteKey
\* returns at "if (!nextLine) return" before preventDefault, and the browser
\* finds nothing after the caret to remove.
handleDeleteKeyLastLine(limit) ==
  /\ Idle(limit)
  /\ focused
  /\ caret.at = "line"
  /\ NumLines > 0
  /\ LET currentLineNum == getCurrentLineNumber
         currentText == lines[currentLineNum + 1].text
         cursorPos == CursorPosOf(caret, lines, currentLineNum)
     IN /\ cursorPos = Len(currentText)
        /\ currentLineNum + 1 >= NumLines
  /\ last' = Returned("delete-last")
  /\ UNCHANGED <<lines, caret, focused, currentLine, content, inflight>>

\* The edit mode toggle while the editor is not in edit mode: editMode
\* becomes true and editor.focus() gives the editor the focus.  Without an
\* earlier selection the caret goes to the start of the editor.
editModeToggle(limit) ==
  /\ Idle(limit)
  /\ ~focused
  /\ focused' = TRUE
  /\ caret' = IF caret.at # "none" THEN caret
              ELSE IF NumLines = 0 THEN [at |-> "editor", ln |-> 0, off |-> 0]
              ELSE CaretAt(0, 0)
  /\ last' = NoLast
  /\ UNCHANGED <<lines, currentLine, content, inflight>>

\* How a key handler ended that found no line at the caret's line number.
MissingLine(handler, outcome) ==
  [NoLast EXCEPT !.op = "missing-line", !.i = getCurrentLineNumber,
                 !.pre = getAllLines, !.ps = <<handler, outcome>>]

\* Enter while editor.childNodes[currentLineNum] does not exist:
\* "if (!currentLine) return".
handleEnterKeyNoLine(limit) ==
  /\ Idle(limit)
  /\ focused
  /\ caret.at # "none"
  /\ getCurrentLineNumber >= NumLines
  /\ last' = MissingLine("handleEnterKey", "returned")
  /\ UNCHANGED <<lines, caret, focused, currentLine, content, inflight>>

\* Backspace while editor.childNodes[currentLineNum] does not exist:
\* "if (!currentLine || currentLineNum === 0) return".
handleBackspaceKeyNoLine(limit) ==
  /\ Idle(limit)
  /\ focused
  /\ caret.at # "none"
  /\ getCurrentLineNumber >= NumLines
  /\ last' = MissingLine("handleBackspaceKey", "returned")
  /\ UNCHANGED <<lines, caret, focused, currentLine, content, inflight>>

NextKeys ==
  \/ LoadEvent(1)
  \/ CaretEvent(1)
  \/ handleBackspaceKeyFirstLine(1) /\ Untracked /\ Editor
  \/ handleDeleteKeyLastLine(1) /\ Untracked /\ Editor
  \/ editModeToggle(1) /\ Untracked /\ Editor
  \/ handleEnterKeyNoLine(1) /\ Untracked /\ Editor
  \/ handleBackspaceKeyNoLine(1) /\ Untracked /\ Editor
  \/ \E j \in 1..Len(inflight) : setEditorContentAppend(j) /\ Plain /\ Editor
  \/ CaretResume

SpecKeys == Init /\ [][NextKeys]_vars

BoundaryOps == {"backspace-first", "delete-last"}

FirstRenderIndex(h) == IF h.op = "backspace" THEN h.num - 1 ELSE h.num
FirstRenderEditing(h) == h.op # "enter"

\* C25 - Full-document context: the result a key handler waits for at its
\* first render call is the result of a request for the line at its
\* position in the full current raw line sequence.
C25_FullContext ==
  \A j \in 1..Len(inflight) :
    LET h == inflight[j]
    IN (h.op \in {"enter", "backspace", "delete"} /\ h.pc = "first") =>
         h.res = <<renderMarkdownLine(h.s1, FirstRenderEditing(h),
                                      FirstRenderIndex(h), getAllLines)>>


\* C26 - Loud structural failure: a split or a merge requested at a line
\* number at which the editor has no line ends in an assertion, not in a
\* plain return.
C26_LoudFailure ==
  (last.op = "missing-line") => last.ps[2] = "assertion"


(***************************************************************************)
(* The structural edits alone: tabs are opened, the caret is moved, and    *)
(* Enter, Backspace, Delete and paste are handled one at a time.           *)
(***************************************************************************)
NextEdits ==
  \/ LoadEvent(1)
  \/ CaretEvent(1)
  \/ StructuralEvent(1)
  \/ StructuralResume
  \/ CaretResume

SpecEdits == Init /\ [][NextEdits]_vars

\* The position (from 1) of the first line a structural edit at line number
\* i works on, and the number of lines it works on there.
FirstAffected(op, i) == IF op = "backspace" THEN i ELSE i + 1
AffectedBefore(op) == IF op \in {"backspace", "delete"} THEN 2 ELSE 1

\* C27 - Frame of structural edits: once an Enter, a Backspace merge, a
\* Delete merge or a paste at line i has completed, every line before the
\* lines it worked on has the raw text and the data-line it had, and every
\* line after them has the raw text it had, at a position and with a
\* data-line shifted by the change of the line count.
C27_FrameOfStructuralEdits ==
  (last.op \in KeyOps /\ last.inl) =>
    LET pre == last.pre
        a == FirstAffected(last.op, last.i)
        shift == NumLines - Len(pre)
    IN /\ \A j \in 1..(a - 1) : lines[j].raw = pre[j] /\ lines[j].idx = j - 1
       /\ \A j \in (a + AffectedBefore(last.op))..Len(pre) :
            /\ j + shift \in 1..NumLines
            /\ lines[j + shift].raw = pre[j]
            /\ lines[j + shift].idx = j + shift - 1


\* A Backspace merge at line 1 of three lines has completed: the third line
\* is now the second.
C27_MergeShiftsLastLine ==
  /\ last.op = "backspace"
  /\ last.inl
  /\ last.i = 1
  /\ Len(last.pre) = 3
  /\ NumLines = 2
  /\ lines[2].raw = last.pre[3]
  /\ lines[2].idx = 1


\* C28 - insertCodeBlock: once insertCodeBlock has completed at line i, if
\* the line's raw text was blank then lines i, i+1, i+2 have raw "```", ""
\* and "```", the line count has grown by 2, every later line's data-line is
\* its position and the caret is in line i+1; if it was not blank, the raw
\* lines are the ones from before.
C28_InsertCodeBlock ==
  (last.op = "codeblock") =>
    LET i == last.i
        pre == last.pre
    IN IF Trim(pre[i + 1]) = <<>>
       THEN /\ NumLines = Len(pre) + 2
            /\ lines[i + 1].raw = Fence
            /\ lines[i + 2].raw = <<>>
            /\ lines[i + 3].raw = Fence
            /\ \A j \in (i + 4)..NumLines : lines[j].idx = j - 1
            /\ caret.at = "line" /\ caret.ln = i + 1
       ELSE getAllLines = pre


(***************************************************************************)
(* increaseHeadingLevel and decreaseHeadingLevel on the one line of a      *)
(* document.  arg is the line's raw text when the tab was opened, ret.ops  *)
(* the functions called since.                                             *)
(***************************************************************************)
Hashes(k) == [j \in 1..k |-> "#"]

RECURSIVE HashRun(_)
HashRun(s) == IF s # <<>> /\ s[1] = "#" THEN 1 + HashRun(Tail(s)) ELSE 0

\* rawText.match(/^(#{lo,hi})\s/): lo to hi "#" and then white space.
MatchesHashes(rawText, lo, hi) ==
  LET n == HashRun(rawText)
  IN n \in lo..hi /\ Len(rawText) > n /\ IsSpace(rawText[n + 1])

\* What follows the match.
AfterHashes(rawText) == SubSeq(rawText, HashRun(rawText) + 2, Len(rawText))

\* newText of increaseHeadingLevel
increaseHeadingText(rawText) ==
  IF MatchesHashes(rawText, 1, 5)
  THEN Hashes(HashRun(rawText) - 1) \o <<SP>> \o AfterHashes(rawText)
  ELSE IF MatchesHashes(rawText, 6, 6)
  THEN Hashes(5) \o <<SP>> \o AfterHashes(rawText)
  ELSE <<"#", SP>> \o rawText

\* A decrease that adds two "#".
decreaseHeadingTextTwice(rawText) ==
  IF MatchesHashes(rawText, 1, 5)
  THEN Hashes(HashRun(rawText) + 2) \o <<SP>> \o AfterHashes(rawText)
  ELSE <<"#", SP>> \o rawText

\* newText of decreaseHeadingLevel
decreaseHeadingText(rawText) ==
  IF MatchesHashes(rawText, 1, 5)
  THEN Hashes(HashRun(rawText) + 1) \o <<SP>> \o AfterHashes(rawText)
  ELSE <<"#", SP>> \o rawText

\* currentLine.setAttribute("data-raw", newText); currentLine.textContent =
\* newText; handleInput()
setHeadingText(limit, newText, name) ==
  LET currentLineNum == getCurrentLineNumber
      cur == [SetHtml(lines[currentLineNum + 1], TextContentHtml(newText))
                EXCEPT !.raw = newText]
      ls0 == [lines EXCEPT ![currentLineNum + 1] = cur]
      c0 == CaretHtmlAt(caret, currentLineNum)
  IN /\ lines' = InputLines(ls0, c0)
     /\ caret' = c0
     /\ inflight' = Append(inflight, InputHandler(ls0, c0))
     /\ last' = NoLast
     /\ ret' = [ret EXCEPT !.ops = Append(@, name)]
     /\ UNCHANGED <<focused, currentLine, content, serial, arg, backend, tabvars>>

increaseHeadingLevel(limit) ==
  /\ Idle(limit)
  /\ NumLines > 0
  /\ Len(ret.ops) < MaxHeadingOps
  /\ setHeadingText(limit, increaseHeadingText(lines[getCurrentLineNumber + 1].raw),
                    "increase")

decreaseHeadingLevel(limit) ==
  /\ Idle(limit)
  /\ NumLines > 0
  /\ Len(ret.ops) < MaxHeadingOps
  /\ setHeadingText(limit, decreaseHeadingText(lines[getCurrentLineNumber + 1].raw),
                    "decrease")

\* The lines a tab is opened with: the text x alone, and x behind one to
\* seven "#" and a space or a tab.
HeadingLines ==
  {<<"a">>} \cup {Hashes(k) \o <<sep, "a">> : k \in 1..7, sep \in {SP, TAB}}

\* The tab has been opened and the caret put into its line.
InitHeading ==
  /\ backend = "up"
  /\ arg \in HeadingLines
  /\ lines = <<NewDiv(arg, 0, TRUE, renderMarkdownLine(arg, TRUE, 0, <<arg>>))>>
  /\ caret = CaretAt(0, 0)
  /\ focused = TRUE
  /\ currentLine = 0
  /\ content = arg
  /\ inflight = <<>>
  /\ last = NoLast
  /\ serial = NoSerial
  /\ tabs = <<>>
  /\ activeTabIndex = -1
  /\ isDirty = FALSE
  /\ currentFile = NoFile
  /\ storage = NoStorage
  /\ ret = [fn |-> "heading", ops |-> <<>>]

NextHeading ==
  \/ increaseHeadingLevel(1)
  \/ decreaseHeadingLevel(1)
  \/ \E j \in 1..Len(inflight) : handleInputRendered(j) /\ Plain /\ Editor

SpecHeading == InitHeading /\ [][NextHeading]_vars

\* A heading of level k: k "#", a space and the heading's text.
IsHeading(rawText, k) ==
  /\ Len(rawText) > k
  /\ SubSeq(rawText, 1, k + 1) = Hashes(k) \o <<SP>>

\* The level of a heading line, 0 for a line that is no heading.
HeadingLevel(rawText) ==
  IF \E k \in 1..6 : IsHeading(rawText, k)
  THEN CHOOSE k \in 1..6 : IsHeading(rawText, k)
  ELSE 0

\* The text of a heading line, the whole of a line that is no heading.
HeadingText(rawText) ==
  SubSeq(rawText, IF HeadingLevel(rawText) = 0 THEN 1 ELSE HeadingLevel(rawText) + 2,
         Len(rawText))

\* C29 - Heading level round-trip: on a heading of level 1 to 5,
\* decreaseHeadingLevel and then increaseHeadingLevel give back the raw
\* text; on a heading of level 2 to 6, increaseHeadingLevel and then
\* decreaseHeadingLevel do.
C29_HeadingRoundTrip ==
  (inflight = <<>>) =>
    /\ (ret.ops = <<"decrease", "increase">> /\ HeadingLevel(arg) \in 1..5)
         => lines[1].raw = arg
    /\ (ret.ops = <<"increase", "decrease">> /\ HeadingLevel(arg) \in 2..6)
         => lines[1].raw = arg

\* A heading of level 5 has been taken to level 6 and back.
C29_LevelFiveAndBack ==
  /\ inflight = <<>>
  /\ ret.ops = <<"decrease", "increase">>
  /\ HeadingLevel(arg) = 5
  /\ lines[1].raw = arg

\* C30 - Heading level bounds: whatever increaseHeadingLevel and
\* decreaseHeadingLevel have been called on a line of text x, the raw line
\* is x, or one to six "#", one space and x.
C30_HeadingBounds ==
  (ret.ops # <<>>) =>
    \/ lines[1].raw = HeadingText(arg)
    \/ \E k \in 1..6 : lines[1].raw = Hashes(k) \o <<SP>> \o HeadingText(arg)

\* The indices of the lines that carry the editing mark.
EditingLines == {j \in 0..(NumLines - 1) : lines[j + 1].editing}

\* C31 - Single editing line: while no handler is suspended at most one
\* line carries the editing mark, and that line is the one at
\* state.currentLine; after a blur no line is editing and state.currentLine
\* is null.
C31_SingleEditingLine ==
  (inflight = <<>>) =>
    /\ Cardinality(EditingLines) <= 1
    /\ \A j \in EditingLines : currentLine = j
    /\ (last.op = "blur") => (EditingLines = {} /\ currentLine = NULL)

\* setEditorContent has emptied the editor and waits for the batch.
Loading == \E j \in 1..Len(inflight) : inflight[j].op = "load"

TabTexts == {<<"a", NL, "a">>}

Call(fn, index, filePath, shouldSave) ==
  [fn |-> fn, index |-> index, filePath |-> filePath, shouldSave |-> shouldSave,
   tabs |-> tabs, activeTabIndex |-> activeTabIndex, content |-> content,
   isDirty |-> isDirty, currentFile |-> currentFile, raw |-> getAllLines]

\* The tab operations leave these alone.
TabCall == UNCHANGED <<serial, arg, backend>>

initTabs ==
  /\ inflight = <<>>
  /\ tabs = <<>>
  /\ tabs' = <<[createTab(currentFile, content) EXCEPT
                  !.isDirty = isDirty, !.cursorLine = currentLine]>>
  /\ activeTabIndex' = 0
  /\ ret' = Call("initTabs", NULL, NoFile, FALSE)
  /\ last' = NoLast
  /\ UNCHANGED <<lines, caret, focused, currentLine, content, inflight, isDirty,
                 currentFile, storage>>
  /\ TabCall

saveCurrentTabState ==
  IF HasActiveTab
  THEN [tabs EXCEPT ![activeTabIndex + 1] =
          [filePath |-> currentFile, content |-> content, isDirty |-> isDirty,
           cursorLine |-> currentLine]]
  ELSE tabs

\* "if (index < 0 || index >= tabs.length) return"
OutOfRange(limit) ==
  /\ Idle(limit)
  /\ ~focused
  /\ last' = [NoLast EXCEPT !.op = "out-of-range"]
  /\ UNCHANGED <<lines, caret, focused, currentLine, content, inflight, tabvars>>

\* The body of switchToTab.
SwitchTo(limit, index) ==
  IF index < 0 \/ index >= Len(tabs)
  THEN OutOfRange(limit)
  ELSE LET ts == IF activeTabIndex >= 0 THEN saveCurrentTabState ELSE tabs
       IN /\ tabs' = ts
          /\ activeTabIndex' = index
          /\ loadTabState(limit, ts[index + 1])
          /\ UNCHANGED storage

switchToTab(limit, index) ==
  /\ SwitchTo(limit, index)
  /\ ret' = Call("switchToTab", index, NoFile, FALSE)
  /\ TabCall

\* tabs.findIndex(tab => tab.filePath === filePath), -1 when there is none
FindIndex(filePath) ==
  LET found == {k \in 0..(Len(tabs) - 1) : tabs[k + 1].filePath = filePath}
  IN IF found = {} THEN -1
     ELSE CHOOSE k \in found : \A m \in found : k <= m

openInTab(limit, filePath, text) ==
  /\ ret' = Call("openInTab", FindIndex(filePath), filePath, FALSE)
  /\ TabCall
  /\ IF filePath # NoFile /\ FindIndex(filePath) # -1
     THEN SwitchTo(limit, FindIndex(filePath))
     ELSE /\ Len(tabs) < MaxTabs
          /\ LET ts == IF activeTabIndex >= 0 THEN saveCurrentTabState ELSE tabs
                 newTab == createTab(filePath, text)
             IN /\ tabs' = Append(ts, newTab)
                /\ activeTabIndex' = Len(ts)
                /\ loadTabState(limit, newTab)
                /\ UNCHANGED storage

\* The removal without the update of the active index.
RemovalKept(ts, act, index) ==
  [tabs |-> RemoveAt(ts, index), active |-> act, load |-> FALSE]

\* closeTab from "tabs.splice(index, 1)" on: the tab list, the active index
\* and whether the active tab is loaded.
Removal(ts, act, index) ==
  LET ts2 == RemoveAt(ts, index)
  IN IF Len(ts2) = 0
     THEN [tabs |-> <<createTab(NoFile, <<>>)>>, active |-> 0, load |-> TRUE]
     ELSE IF index <= act
     THEN [tabs |-> ts2, active |-> IF act - 1 > 0 THEN act - 1 ELSE 0, load |-> TRUE]
     ELSE IF act >= Len(ts2)
     THEN [tabs |-> ts2, active |-> Len(ts2) - 1, load |-> TRUE]
     ELSE [tabs |-> ts2, active |-> act, load |-> FALSE]

\* hs are the other suspended handlers, dirty is state.isDirty.
CloseRemove(ts, act, index, hs, dirty) ==
  LET r == Removal(ts, act, index)
  IN /\ tabs' = r.tabs
     /\ activeTabIndex' = r.active
     /\ IF r.load
        THEN /\ LoadState(r.tabs[r.active + 1])
             /\ inflight' = Append(RemapClear(hs), LoadHandler(r.tabs[r.active + 1]))
             /\ last' = NoLast
        ELSE /\ inflight' = hs
             /\ last' = [NoLast EXCEPT !.op = "closeTab"]
             /\ isDirty' = dirty
             /\ UNCHANGED <<content, currentLine, currentFile, lines, caret>>
     /\ UNCHANGED focused

\* shouldSave is the answer to confirm(), asked for a dirty tab.
closeTab(limit, index, shouldSave) ==
  /\ ret' = Call("closeTab", index, NoFile, shouldSave)
  /\ TabCall
  /\ IF index < 0 \/ index >= Len(tabs)
     THEN OutOfRange(limit)
     ELSE /\ Idle(limit)
          /\ ~focused
          /\ LET tab == tabs[index + 1]
             IN IF tab.isDirty /\ shouldSave /\ tab.filePath # NoFile
                THEN /\ activeTabIndex' = index
                     /\ LoadState(tab)
                     /\ inflight' = Append(RemapClear(inflight),
                                           [LoadHandler(tab) EXCEPT
                                              !.op = "closeTab", !.num = index,
                                              !.pos = activeTabIndex])
                     /\ last' = NoLast
                     /\ UNCHANGED <<focused, tabs, storage>>
                ELSE /\ CloseRemove(tabs, activeTabIndex, index, inflight, isDirty)
                     /\ UNCHANGED storage

closeActiveTab(limit, shouldSave) ==
  /\ activeTabIndex >= 0
  /\ closeTab(limit, activeTabIndex, shouldSave)

\* closeTab after "await loadTabState(tab)": saveFile calls writeTextFile.
closeTabLoaded(j) ==
  LET h == inflight[j] IN
  /\ h.op = "closeTab" /\ h.pc = "append"
  /\ lines' = lines \o [m \in 1..Len(h.ps) |->
                          NewDiv(h.ps[m], m - 1, FALSE, h.res[m])]
  /\ inflight' = [inflight EXCEPT ![j].pc = "write"]
  /\ UNCHANGED <<caret, focused, currentLine, content, last, tabvars, ret>>
  /\ TabCall

\* closeTab after "await writeTextFile(state.currentFile, state.content)":
\* markCurrentTabClean, "activeTabIndex = wasActiveIndex", and the removal.
closeTabWritten(j) ==
  LET h == inflight[j]
      ts == IF HasActiveTab
            THEN [tabs EXCEPT ![activeTabIndex + 1].isDirty = FALSE]
            ELSE tabs
  IN /\ h.op = "closeTab" /\ h.pc = "write"
     /\ storage' = [storage EXCEPT ![currentFile] = content]
     /\ CloseRemove(ts, h.pos, h.num, Drop(inflight, j), isDirty /\ ~HasActiveTab)
     /\ UNCHANGED ret
     /\ TabCall

\* initTabs runs when the window starts, before the listeners are called.
Started == activeTabIndex >= 0

TabEvent(limit) ==
  \/ \E filePath \in Files \cup {NoFile}, text \in TabTexts :
       Started /\ openInTab(limit, filePath, text)
  \/ \E index \in -1..MaxTabs : Started /\ switchToTab(limit, index)
  \/ \E shouldSave \in BOOLEAN : Started /\ closeActiveTab(limit, shouldSave)
  \/ \E index \in -1..MaxTabs, shouldSave \in BOOLEAN :
       Started /\ closeTab(limit, index, shouldSave)

TabResume ==
  \/ \E j \in 1..Len(inflight) : setEditorContentAppend(j) /\ Plain /\ Editor
  \/ \E j \in 1..Len(inflight) : closeTabLoaded(j)
  \/ \E j \in 1..Len(inflight) : closeTabWritten(j)

\* An editor step after which the last call of a tab operation is no
\* longer the last thing that happened.
Edit == ret' = NoRet /\ UNCHANGED <<arg, backend>> /\ Bookkeeping

\* The editing between the tab operations: a click at the start of a line,
\* a typed character, Backspace at the start of a line, and the blur.
TabEdit(limit) ==
  \/ \E i \in 0..MaxLines : click(limit, i, 0) /\ Untracked /\ Edit
  \/ /\ SumLen(getAllLines) < MaxTabChars
     /\ handleInput(limit, "a")
     /\ Plain
     /\ Edit
  \/ handleBackspaceKey(limit) /\ Plain /\ Edit
  \/ blur(limit) /\ Plain /\ Edit
  \/ \E j \in 1..Len(inflight) : handleInputRendered(j) /\ Plain /\ Edit
  \/ \E j \in 1..Len(inflight) : handleBackspaceKeyRemove(j) /\ Plain /\ Edit
  \/ \E j \in 1..Len(inflight) : handleBackspaceKeyFinish(j) /\ Plain /\ Edit
  \/ \E j \in 1..Len(inflight) : renderAllLines(j) /\ Plain /\ Edit

TabCaretResume ==
  \/ \E j \in 1..Len(inflight) : handleCursorChangeOld(j) /\ Plain /\ Edit
  \/ \E j \in 1..Len(inflight) : handleCursorChangeNew(j) /\ Plain /\ Edit
  \/ \E j \in 1..Len(inflight) : handleCursorChangeFrame(j) /\ Plain /\ Edit

NextTabs ==
  \/ initTabs
  \/ TabEvent(1)
  \/ TabResume
  \/ TabEdit(1)
  \/ TabCaretResume

SpecTabs == Init /\ [][NextTabs]_vars

\* The handlers of the edit operations.
EditOps == {"input", "enter", "backspace", "delete", "paste"}

\* C33 - Tab record sync: when an edit operation has completed, the active
\* tab's record is marked dirty and its content is state.content.
C33_TabRecordSync ==
  (last.op \in EditOps /\ HasActiveTab) =>
    /\ tabs[activeTabIndex + 1].isDirty
    /\ tabs[activeTabIndex + 1].content = content

\* A call of openInTab, switchToTab or closeTab with an index in range has
\* completed, and nothing has happened since.
TabOps == {"openInTab", "switchToTab", "closeTab"}
TabOpCompleted ==
  /\ ret.fn \in TabOps
  /\ inflight = <<>>
  /\ last.op # "out-of-range"

\* C34 - Editor shows the active tab: when openInTab, switchToTab or
\* closeTab has completed, state.currentFile and state.content are the
\* filePath and the content of tabs[activeTabIndex].
C34_EditorShowsActiveTab ==
  TabOpCompleted =>
    /\ HasActiveTab
    /\ currentFile = tabs[activeTabIndex + 1].filePath
    /\ content = tabs[activeTabIndex + 1].content

\* C35 - Closing another tab is harmless: when closeTab has completed for
\* a tab other than the active one, the active tab is the tab it was and
\* state.content, state.isDirty and the raw lines of the editor are what
\* they were when closeTab was called.
C35_ClosingAnotherTab ==
  (TabOpCompleted /\ ret.fn = "closeTab" /\ ret.index # ret.activeTabIndex) =>
    /\ HasActiveTab
    /\ tabs[activeTabIndex + 1].filePath = ret.tabs[ret.activeTabIndex + 1].filePath
    /\ content = ret.content
    /\ isDirty = ret.isDirty
    /\ getAllLines = ret.raw

\* initTabs has run: the tab list and the active index are no longer what
\* they are when the module is loaded.
InitTabsRan == tabs # <<>> \/ activeTabIndex # -1

\* A call of switchToTab or closeTab with an index outside the tab list.
OutOfRangeCall ==
  /\ inflight = <<>>
  /\ ret'.fn \in {"switchToTab", "closeTab"}
  /\ ret'.index \notin 0..(Len(tabs) - 1)

\* C36 - Tab index invariant: once initTabs has run, after any sequence of
\* openInTab, switchToTab, closeTab and closeActiveTab the tab list is
\* non-empty and 0 <= activeTabIndex < number of tabs; switchToTab and
\* closeTab called with an out-of-range index change nothing.
C36_TabIndexInvariant ==
  /\ [](InitTabsRan =>
          Len(tabs) >= 1 /\ activeTabIndex \in 0..(Len(tabs) - 1))
  /\ [][OutOfRangeCall =>
          UNCHANGED <<tabvars, lines, caret, focused, currentLine, content,
                      inflight>>]_vars

\* closeTab has closed the only tab and has put an empty tab in its place.
C36_LastTabClosed ==
  /\ TabOpCompleted
  /\ ret.fn = "closeTab"
  /\ Len(ret.tabs) = 1
  /\ ret.index = 0
  /\ Len(tabs) = 1
  /\ activeTabIndex = 0

\* A call of openInTab with a file path that some tab holds.
OpenHeldPath ==
  /\ inflight = <<>>
  /\ ret'.fn = "openInTab"
  /\ ret'.filePath # NoFile
  /\ \E k \in 1..Len(tabs) : tabs[k].filePath = ret'.filePath

\* C37 - One tab per file: openInTab called with a file path already held
\* by some tab switches to that tab and creates no new tab; after any
\* sequence of openInTab, switchToTab and closeTab no two tabs have the same
\* non-null filePath.
C37_OneTabPerFile ==
  /\ [](\A j, k \in 1..Len(tabs) :
          (j # k /\ tabs[j].filePath # NoFile) =>
            tabs[j].filePath # tabs[k].filePath)
  /\ [][OpenHeldPath =>
          /\ Len(tabs') = Len(tabs)
          /\ tabs'[activeTabIndex' + 1].filePath = ret'.filePath]_vars

\* C38 - Save before close: when closeTab has closed a tab whose record was
\* dirty and the user accepted the save prompt, the content of that tab has
\* been written to storage, whether or not the tab has a file path.
C38_SaveBeforeClose ==
  (/\ TabOpCompleted
   /\ ret.fn = "closeTab"
   /\ ret.index \in 0..(Len(ret.tabs) - 1)
   /\ ret.tabs[ret.index + 1].isDirty
   /\ ret.shouldSave) =>
    \E p \in Files : storage[p] = ret.tabs[ret.index + 1].content

(***************************************************************************)
(* Typing, the blur and the opening of a tab while render calls are        *)
(* pending: the input and blur listeners are called whenever the browser   *)
(* dispatches the events, and no handler waits for the render call of      *)
(* another one.  The events arrive after handleCursorChange has completed, *)
(* and keys are typed while the document is small.                         *)
(***************************************************************************)
NoCursor == \A j \in 1..Len(inflight) : inflight[j].op # "cursor"

\* A tab is opened when at most the render call of a blur is pending.
OnlyBlur == \A j \in 1..Len(inflight) : inflight[j].op = "blur"

\* The content of the tabs that are opened.
StaleTexts == {<<>>, <<"a">>, <<"a", NL, BT>>}

NextStale ==
  \/ \E text \in StaleTexts :
       /\ OnlyBlur
       /\ loadTabState(MaxInFlight, createTab(NoFile, text))
       /\ Untracked
       /\ UNCHANGED <<arg, ret, backend, tabs, activeTabIndex, storage>>
  \/ \E i \in 0..MaxLines, off \in 0..MaxChars :
       click(1, i, off) /\ Untracked /\ Editor
  \/ \E c \in TypedChars :
       NoCursor /\ AsyncRoom /\ handleInput(MaxInFlight, c) /\ Plain /\ Editor
  \/ NoCursor /\ blur(MaxInFlight) /\ Plain /\ Editor
  \/ \E j \in 1..Len(inflight) : setEditorContentAppend(j) /\ Plain /\ Editor
  \/ \E j \in 1..Len(inflight) : handleInputRendered(j) /\ Plain /\ Editor
  \/ \E j \in 1..Len(inflight) : renderAllLines(j) /\ Plain /\ Editor
  \/ CaretResume

SpecStale == Init /\ [][NextStale]_vars

\* The markup of div is what a render request for the text line gives: the
\* request is for a line that is being edited or not, outside or inside an
\* open code block.
RenderedFrom(div, line) ==
  \E isEditing \in BOOLEAN, open \in BOOLEAN :
    LET before == IF open THEN <<<<BT, BT, BT>>>> ELSE <<>>
        r == renderMarkdownLine(line, isEditing, Len(before), before \o <<line>>)
    IN div.text = r.text /\ div.tag = r.tag /\ div.first = r.first

\* C39 - No stale render at quiescence: once all in-flight handlers and
\* render calls have completed, the markup displayed for each line is the
\* result of a render request whose line text equals that line's current
\* raw text.
C39_NoStaleRender ==
  inflight = <<>> => \A j \in 1..NumLines : RenderedFrom(lines[j], lines[j].raw)

====
